---- MODULE Spec2Model ----
(***************************************************************************)
(* OpenTESArena world generation and voxel decoding:                       *)
(*   LevelData::readFLOR / readMAP1 / readMAP2 (voxel definition cache),   *)
(*   ExteriorLevelData::generateCity, generateWildernessIndices and        *)
(*   revisePalaceGraphics.                                                 *)
(* 16-bit codes are kept as naturals below 65536; masks and shifts are     *)
(* written with \div and %.                                                *)
(***************************************************************************)
EXTENDS Integers, Sequences, FiniteSets, TLC

VARIABLES
    \* ---- LevelData (map layer decoder) ----
    gridWidth, gridDepth,      \* dimensions handed to readFLOR/readMAP1/readMAP2
    flor, map1, map2,          \* raw layer arrays, indexed by raw element index
    inf,                       \* the level's INFFile
    worldType,                 \* WorldType handed to readMAP1
    voxels,                    \* VoxelGrid::voxels, [x, y, z] -> definition index
    voxelData,                 \* VoxelGrid's definition list
    floorDataMappings, chasmDataMappings, wallDataMappings, map2DataMappings,
    flatsLists,                \* LevelData::flatsLists
    written,                   \* cells setVoxel has been called on
    pc, cx, cz,                \* which read* loop runs, and its loop indices
    \* ---- ExteriorLevelData::generateCity ----
    citySeed, cityDim, reservedBlocks, startPosition,  \* arguments
    cityGridDepth,             \* the gridDepth argument: row length of the dst layers
    cityBlockMifs,             \* MiscAssets::getCityBlockMifs: the templates that exist
    blockSize,                 \* <<width, depth>> of the block templates
    random,                    \* ArenaRandom::value, as <<high 16 bits, low 16 bits>>
    plan,                      \* the BlockType of each plan cell (1-based sequence)
    dstLength,                 \* size of each destination layer
    dstFlor, dstMap1, dstMap2, \* destination layers: element index -> value, for the
                               \* elements written so far (the others hold the skeleton)
    cityPc,                    \* position in generateCity
    ri,                        \* reserved-block loop index
    placing,                   \* the BlockType placeBlock is called with, or "None"
    fixedPlaced,               \* how many of the six initial placements are done
    remainingBlocks,           \* loop variable of the plan-fill loop
    xDim, yDim,                \* loop variables of the build loop
    draws,                     \* every value random.next() returned, in order
    fills,                     \* <<randVal, plan index>> of each plan-fill placement
    stamps,                    \* one record per block whose rows were written
    firstRun,                  \* outputs of the previous run with the same arguments
    \* ---- ExteriorLevelData::generateWildernessIndices ----
    wildSeed, wildData,        \* arguments: the seed and ExeData::Wilderness' five lists
    wildRandom,                \* the function's ArenaRandom
    indices,                   \* the Buffer2D's elements generated so far, in order
    wildRow,                   \* <<randVal, list, pick>> of each cell generated last
    wildPc,                    \* position in generateWildernessIndices
    \* ---- ExteriorLevelData::revisePalaceGraphics (on map1, gridWidth, gridDepth) ----
    result,                    \* the SearchResult
    gateDist,                  \* what getGateDistance returned
    debugLog,                  \* the messages logged with DebugLogWarning / DebugLogError
    mif,                       \* the city's .MIF file as MIFFile::init left it
    premade,                   \* CityDefinition::premade
    menuNames,                 \* LevelData::menuNames: <<position, name>> entries
    seen,                      \* the hashes used in the running generateNames call
    menuType,                  \* the menu type of the running generateNames call
    mainQuestTempleOverride,   \* CityDefinition::mainQuestTempleOverride
    \* ---- LevelData::DoorState and LevelData::FadeState ----
    percentOpen, direction,    \* a DoorState; percentOpen in units of 1/PercentScale
    currentSeconds, targetSeconds,  \* a FadeState, in ticks
    \* ---- ExteriorWorldData ----
    isCity,                    \* ExteriorWorldData::isCity
    interior,                  \* the InteriorState held, or NoInterior
    returnVoxel,               \* what the last leaveInterior call returned
    worldPc                    \* "ready", or "crash" after a failed DebugAssert

levelVars == <<gridWidth, gridDepth, flor, map1, map2, inf, worldType, voxels, voxelData,
               floorDataMappings, chasmDataMappings, wallDataMappings, map2DataMappings,
               flatsLists, written, pc, cx, cz>>

cityVars == <<citySeed, cityDim, reservedBlocks, startPosition, cityGridDepth, cityBlockMifs,
              blockSize, random, plan, dstLength, dstFlor, dstMap1, dstMap2, cityPc, ri,
              placing,
              fixedPlaced, remainingBlocks, xDim, yDim, draws, fills, stamps, firstRun>>

wildVars == <<wildSeed, wildData, wildRandom, indices, wildRow, wildPc>>

palaceVars == <<result, gateDist, debugLog>>

cityDefVars == <<mif, premade>>
namesVars == <<menuNames, seen, menuType, mainQuestTempleOverride>>

animVars == <<percentOpen, direction, currentSeconds, targetSeconds>>
worldVars == <<isCity, interior, returnVoxel, worldPc>>

vars == <<levelVars, cityVars, wildVars, palaceVars, cityDefVars, namesVars, animVars,
          worldVars>>

Null == -1

(***************************************************************************)
(* Bounds of the decoder inputs.                                           *)
(***************************************************************************)
MaxGridWidth == 2
MaxSpecial == 1
GridDepths == {1, 2}

\* Height of the voxel grid (floor, main floor and four MAP2 stories).
levelHeight == 6

\* MIFFile chasm texture IDs.
DRY_CHASM == 12
WET_CHASM == 13
LAVA_CHASM == 14

(***************************************************************************)
(* VoxelData constructors.                                                 *)
(***************************************************************************)
MakeFloor(id) == [kind |-> "Floor", id |-> id]

MakeChasm(id, north, east, south, west, type) ==
    [kind |-> "Chasm", id |-> id, north |-> north, east |-> east,
     south |-> south, west |-> west, type |-> type]

MakeWall(sideID, floorID, ceilingID, menuID, type) ==
    [kind |-> "Wall", sideID |-> sideID, floorID |-> floorID, ceilingID |-> ceilingID,
     menuID |-> menuID, type |-> type]

MakeRaised(sideID, floorID, ceilingID, yOffset, ySize, vTop, vBottom) ==
    [kind |-> "Raised", sideID |-> sideID, floorID |-> floorID, ceilingID |-> ceilingID,
     yOffset |-> yOffset, ySize |-> ySize, vTop |-> vTop, vBottom |-> vBottom]

MakeTransparentWall(id, collider) ==
    [kind |-> "TransparentWall", id |-> id, collider |-> collider]

MakeEdge(id, yOffset, collider, flipped, facing) ==
    [kind |-> "Edge", id |-> id, yOffset |-> yOffset, collider |-> collider,
     flipped |-> flipped, facing |-> facing]

MakeDoor(id, type) == [kind |-> "Door", id |-> id, type |-> type]

MakeDiagonal(id, isRightDiag) == [kind |-> "Diagonal", id |-> id, isRightDiag |-> isRightDiag]

(***************************************************************************)
(* VoxelGrid.                                                              *)
(***************************************************************************)
\* VoxelGrid::addVoxelData: append, return the new entry's index (0-based).
AddVoxelData(vd, def) == [data |-> Append(vd, def), index |-> Len(vd)]

\* A fresh VoxelGrid: every voxel holds 0, no definitions.
NewVoxels(w, d) == [c \in (0..(w - 1)) \X (0..(levelHeight - 1)) \X (0..(d - 1)) |-> 0]

Max(a, b) == IF a > b THEN a ELSE b
Min(a, b) == IF a < b THEN a ELSE b

\* Index of the first entry of mapping sequence m whose key is k, or 0.
FindKey(m, k) ==
    LET hits == {i \in 1..Len(m) : m[i].key = k}
    IN IF hits = {} THEN 0 ELSE CHOOSE i \in hits : \A j \in hits : i <= j

(***************************************************************************)
(* INFFile and ExeData lookups used by the decoder.                        *)
(***************************************************************************)
\* INFFile::getMenuIndex: position of the texture index in the *MENU list, or -1.
GetMenuIndex(f, textureIndex) ==
    LET hits == {i \in 1..Len(f.menus) : f.menus[i] = textureIndex}
    IN IF hits = {} THEN -1 ELSE (CHOOSE i \in hits : \A j \in hits : i <= j) - 1

\* INFFile::getBoxSide / getBoxCap: the texture ID, or Null when the entry is absent.
GetBoxSide(f, id) == IF id \in DOMAIN f.boxSides THEN f.boxSides[id] ELSE Null
GetBoxCap(f, id) == IF id \in DOMAIN f.boxCaps THEN f.boxCaps[id] ELSE Null

\* ExeData::wallHeightTables (box1 tables have 8 entries, box2 tables 16).
Box1a(i) == 8 * i
Box1b(i) == 16 * i
Box1c(i) == 12 * i
Box2a(i) == 16 + (4 * i)
Box2b(i) == 8 + (8 * i)

(***************************************************************************)
(* LevelData::addFlatInstance.                                             *)
(***************************************************************************)
\* A variant that creates a new def for every position.
AddFlatInstanceNoLookup(fl, flatIndex, flatPosition) ==
    Append(fl, [flatIndex |-> flatIndex, positions |-> <<flatPosition>>])

AddFlatInstance(fl, flatIndex, flatPosition) ==
    LET hits == {i \in 1..Len(fl) : fl[i].flatIndex = flatIndex}
    IN IF hits # {}
       THEN LET i == CHOOSE k \in hits : \A j \in hits : k <= j
            IN [fl EXCEPT ![i].positions = Append(@, flatPosition)]
       ELSE Append(fl, [flatIndex |-> flatIndex, positions |-> <<flatPosition>>])

(***************************************************************************)
(* LevelData::readFLOR.                                                    *)
(***************************************************************************)
\* getFlorVoxel / getMap1Voxel / getMap2Voxel: the layers are read in reverse order.
GetLayerVoxel(layer, w, d, x, z) == layer[((d - 1) - z) + (((w - 1) - x) * d)]

GetFloorTextureID(voxel) == voxel \div 256
GetFlatIndex(voxel) == voxel % 256
IsChasm(id) == (id = DRY_CHASM) \/ (id = LAVA_CHASM) \/ (id = WET_CHASM)

\* A variant of getFlorDataIndex: the existing mapping is not consulted.
GetFlorDataIndexNoLookup(vd, fm, florVoxel, floorTextureID) ==
    LET a == AddVoxelData(vd, MakeFloor(floorTextureID))
    IN [index |-> a.index, data |-> a.data,
        map |-> Append(fm, [key |-> florVoxel, index |-> a.index])]

GetFlorDataIndex(vd, fm, florVoxel, floorTextureID) ==
    LET i == FindKey(fm, florVoxel)
    IN IF i # 0
       THEN [index |-> fm[i].index, data |-> vd, map |-> fm]
       ELSE LET a == AddVoxelData(vd, MakeFloor(floorTextureID))
            IN [index |-> a.index, data |-> a.data,
                map |-> Append(fm, [key |-> florVoxel, index |-> a.index])]

MakeDryChasmVoxelData(f, faces) ==
    MakeChasm(IF f.dryChasm # Null THEN f.dryChasm ELSE 0,
              faces[1], faces[2], faces[3], faces[4], "Dry")

MakeLavaChasmVoxelData(f, faces) ==
    MakeChasm(IF f.lavaChasm # Null THEN f.lavaChasm ELSE 0,
              faces[1], faces[2], faces[3], faces[4], "Lava")

MakeWetChasmVoxelData(f, faces) ==
    MakeChasm(IF f.wetChasm # Null THEN f.wetChasm ELSE 0,
              faces[1], faces[2], faces[3], faces[4], "Wet")

\* A variant of the chasm dispatch: the lava and wet builders are exchanged.
ChasmVoxelDataSwapped(f, floorTextureID, faces) ==
    IF floorTextureID = DRY_CHASM THEN MakeDryChasmVoxelData(f, faces)
    ELSE IF floorTextureID = LAVA_CHASM THEN MakeWetChasmVoxelData(f, faces)
    ELSE MakeLavaChasmVoxelData(f, faces)

\* The chasm definition readFLOR builds for a chasm texture ID.
ChasmVoxelData(f, floorTextureID, faces) ==
    IF floorTextureID = DRY_CHASM THEN MakeDryChasmVoxelData(f, faces)
    ELSE IF floorTextureID = LAVA_CHASM THEN MakeLavaChasmVoxelData(f, faces)
    ELSE MakeWetChasmVoxelData(f, faces)

\* A variant of getChasmDataIndex: the mapping is searched by the voxel alone.
GetChasmDataIndexCodeOnly(vd, cm, florVoxel, def, adjacentFaces) ==
    LET hits == {i \in 1..Len(cm) : cm[i].key[1] = florVoxel}
    IN IF hits # {}
       THEN [index |-> cm[CHOOSE i \in hits : \A j \in hits : i <= j].index,
             data |-> vd, map |-> cm]
       ELSE LET a == AddVoxelData(vd, def)
            IN [index |-> a.index, data |-> a.data,
                map |-> Append(cm, [key |-> <<florVoxel, adjacentFaces>>, index |-> a.index])]

GetChasmDataIndex(vd, cm, florVoxel, def, adjacentFaces) ==
    LET i == FindKey(cm, <<florVoxel, adjacentFaces>>)
    IN IF i # 0
       THEN [index |-> cm[i].index, data |-> vd, map |-> cm]
       ELSE LET a == AddVoxelData(vd, def)
            IN [index |-> a.index, data |-> a.data,
                map |-> Append(cm, [key |-> <<florVoxel, adjacentFaces>>, index |-> a.index])]

\* The four adjacency flags of the chasm at (x, z): north, east, south, west.
AdjacentFaces(layer, w, d, x, z) ==
    << ~IsChasm(GetFloorTextureID(GetLayerVoxel(layer, w, d, Min(x + 1, w - 1), z))),
       ~IsChasm(GetFloorTextureID(GetLayerVoxel(layer, w, d, x, Min(z + 1, d - 1)))),
       ~IsChasm(GetFloorTextureID(GetLayerVoxel(layer, w, d, Max(x - 1, 0), z))),
       ~IsChasm(GetFloorTextureID(GetLayerVoxel(layer, w, d, x, Max(z - 1, 0)))) >>

\* Loop indices after the body for (x, z) of "for x < w: for z < d".
NextX(x, z, d) == IF z + 1 < d THEN x ELSE x + 1
NextZ(x, z, d) == IF z + 1 < d THEN z + 1 ELSE 0

\* VoxelGrid::setVoxel stores a uint16_t.
SetVoxel(vx, x, y, z, id) == [vx EXCEPT ![<<x, y, z>>] = id % 65536]

\* One iteration of readFLOR's loop body, at (cx, cz).
ReadFLORStep ==
    /\ pc = "readFLOR"
    /\ LET florVoxel == GetLayerVoxel(flor, gridWidth, gridDepth, cx, cz)
           floorTextureID == GetFloorTextureID(florVoxel)
           faces == AdjacentFaces(flor, gridWidth, gridDepth, cx, cz)
           flatIndex == GetFlatIndex(florVoxel)
       IN /\ IF ~IsChasm(floorTextureID)
             THEN LET r == GetFlorDataIndex(voxelData, floorDataMappings,
                                            florVoxel, floorTextureID)
                  IN /\ voxels' = SetVoxel(voxels, cx, 0, cz, r.index)
                     /\ voxelData' = r.data
                     /\ floorDataMappings' = r.map
                     /\ UNCHANGED chasmDataMappings
             ELSE LET r == GetChasmDataIndex(voxelData, chasmDataMappings, florVoxel,
                                             ChasmVoxelData(inf, floorTextureID, faces), faces)
                  IN /\ voxels' = SetVoxel(voxels, cx, 0, cz, r.index)
                     /\ voxelData' = r.data
                     /\ chasmDataMappings' = r.map
                     /\ UNCHANGED floorDataMappings
          /\ written' = written \cup {<<cx, 0, cz>>}
          /\ flatsLists' = IF flatIndex > 0
                           THEN AddFlatInstance(flatsLists, flatIndex - 1, <<cx, cz>>)
                           ELSE flatsLists
    /\ cx' = IF NextX(cx, cz, gridDepth) < gridWidth THEN NextX(cx, cz, gridDepth) ELSE 0
    /\ cz' = NextZ(cx, cz, gridDepth)
    /\ pc' = IF NextX(cx, cz, gridDepth) < gridWidth THEN "readFLOR" ELSE "readMAP1"
    /\ UNCHANGED <<gridWidth, gridDepth, flor, map1, map2, inf, worldType,
                   wallDataMappings, map2DataMappings>>
    /\ UNCHANGED <<cityVars, wildVars, palaceVars, cityDefVars, namesVars>>
    /\ UNCHANGED <<animVars, worldVars>>

(***************************************************************************)
(* LevelData::readMAP1.                                                    *)
(***************************************************************************)
FindWallMapping(wm, map1Voxel) == FindKey(wm, map1Voxel)

\* A variant of getDataIndex: a new entry is given the list's size after the insertion.
GetDataIndexOffByOne(vd, wm, map1Voxel, def) ==
    LET i == FindWallMapping(wm, map1Voxel)
    IN IF i # 0
       THEN [index |-> wm[i].index, data |-> vd, map |-> wm]
       ELSE LET a == AddVoxelData(vd, def)
            IN [index |-> Len(a.data), data |-> a.data,
                map |-> Append(wm, [key |-> map1Voxel, index |-> Len(a.data)])]

\* Lookup-or-insert shared by getDataIndex, getWallDataIndex, getRaisedDataIndex and
\* getTypeADataIndex: the key is the raw MAP1 voxel, def is built only on a miss.
GetDataIndex(vd, wm, map1Voxel, def) ==
    LET i == FindWallMapping(wm, map1Voxel)
    IN IF i # 0
       THEN [index |-> wm[i].index, data |-> vd, map |-> wm]
       ELSE LET a == AddVoxelData(vd, def)
            IN [index |-> a.index, data |-> a.data,
                map |-> Append(wm, [key |-> map1Voxel, index |-> a.index])]

\* makeWallVoxelData.
MakeWallVoxelData(f, mostSigByte) ==
    LET textureIndex == mostSigByte - 1
        menuIndex == GetMenuIndex(f, textureIndex)
        isMenu == menuIndex # -1
        type == IF (f.levelUp # Null) /\ (f.levelUp = textureIndex) THEN "LevelUp"
                ELSE IF (f.levelDown # Null) /\ (f.levelDown = textureIndex) THEN "LevelDown"
                ELSE IF isMenu THEN "Menu"
                ELSE "Solid"
    IN MakeWall(textureIndex, textureIndex, textureIndex,
                IF isMenu THEN menuIndex ELSE -1, type)

\* makeRaisedVoxelData.  Offsets and sizes are kept in units of 1/ceiling.height, so
\* 1.0 is f.ceilingHeight.
MakeRaisedVoxelData(f, wt, map1Voxel, mostSigByte) ==
    LET wallTextureID == map1Voxel % 16
        capTextureID == (map1Voxel \div 16) % 16
        sideID == IF GetBoxSide(f, wallTextureID) # Null THEN GetBoxSide(f, wallTextureID) ELSE 0
        floorID == IF f.ceilingTexture # Null THEN f.ceilingTexture ELSE 0
        ceilingID == IF GetBoxCap(f, capTextureID) # Null THEN GetBoxCap(f, capTextureID) ELSE 0
        heightIndex == mostSigByte % 8
        thicknessIndex == (mostSigByte \div 8) % 16
        baseOffset == IF wt = "City" THEN Box1b(heightIndex)
                      ELSE IF wt = "Interior" THEN Box1a(heightIndex)
                      ELSE Box1c(heightIndex)
        baseSize == IF wt = "City" THEN Box2b(thicknessIndex)
                    ELSE IF wt = "Interior"
                         THEN (IF f.boxScale # Null
                               THEN (Box2a(thicknessIndex) * f.boxScale) \div 256
                               ELSE Box2a(thicknessIndex))
                    ELSE (32 * (IF f.boxScale # Null THEN f.boxScale ELSE 192)) \div 256
        vTop == Max(0, f.ceilingHeight - baseOffset - baseSize)
        vBottom == Min(vTop + baseSize, f.ceilingHeight)
    IN MakeRaised(sideID, floorID, ceilingID, baseOffset, baseSize, vTop, vBottom)

\* makeType9VoxelData.
MakeType9VoxelData(map1Voxel) ==
    MakeTransparentWall((map1Voxel % 256) - 1, (map1Voxel \div 256) % 2 = 0)

\* makeTypeAVoxelData.  yOffset is kept in Arena units.
MakeTypeAVoxelData(wt, map1Voxel, textureIndex) ==
    LET baseOffset == (map1Voxel \div 512) % 8
        fullOffset == IF wt = "Interior" THEN baseOffset * 8 ELSE (baseOffset * 32) - 8
        collider == (map1Voxel \div 256) % 2 # 0
        orientation == ((map1Voxel \div 64) % 4) * 4
        facing == IF orientation = 0 THEN "PositiveX"
                  ELSE IF orientation = 4 THEN "NegativeZ"
                  ELSE IF orientation = 8 THEN "NegativeX"
                  ELSE "PositiveZ"
    IN MakeEdge(textureIndex, fullOffset, collider, collider, facing)

\* makeTypeBVoxelData; door type 0xC is the unhandled case.
DoorType(map1Voxel) ==
    LET type == ((map1Voxel \div 64) % 4) * 4
    IN IF type = 0 THEN "Swinging"
       ELSE IF type = 4 THEN "Sliding"
       ELSE IF type = 8 THEN "Raising"
       ELSE "Unhandled"

MakeTypeBVoxelData(map1Voxel) == MakeDoor((map1Voxel % 64) - 1, DoorType(map1Voxel))

\* makeTypeDVoxelData.
MakeTypeDVoxelData(map1Voxel) ==
    MakeDiagonal((map1Voxel % 256) - 1, (map1Voxel \div 256) % 2 = 0)

\* A variant that decodes an object voxel as a transparent wall.
Map1EffectFlatAsWall(f, wt, map1Voxel) ==
    LET mostSigNibble == map1Voxel \div 4096
        mostSigByte == (map1Voxel \div 256) % 128
        leastSigByte == map1Voxel % 128
    IN IF map1Voxel < 32768
       THEN IF map1Voxel = 0 THEN [op |-> "none"]
            ELSE IF mostSigByte = leastSigByte
                 THEN [op |-> "def", def |-> MakeWallVoxelData(f, mostSigByte)]
                 ELSE [op |-> "def", def |-> MakeRaisedVoxelData(f, wt, map1Voxel, mostSigByte)]
       ELSE IF mostSigNibble \in {8, 9}
            THEN [op |-> "def", def |-> MakeType9VoxelData(map1Voxel)]
       ELSE IF mostSigNibble = 10
            THEN IF ((map1Voxel % 64) - 1) >= 0
                 THEN [op |-> "def",
                       def |-> MakeTypeAVoxelData(wt, map1Voxel, (map1Voxel % 64) - 1)]
                 ELSE [op |-> "none"]
       ELSE IF mostSigNibble = 11
            THEN IF DoorType(map1Voxel) = "Unhandled"
                 THEN [op |-> "crash"]
                 ELSE [op |-> "def", def |-> MakeTypeBVoxelData(map1Voxel)]
       ELSE IF mostSigNibble = 13
            THEN [op |-> "def", def |-> MakeTypeDVoxelData(map1Voxel)]
       ELSE [op |-> "none"]

\* What the loop body of readMAP1 does with one voxel: "def" (look the voxel up or insert
\* the definition, then setVoxel), "flat" (addFlatInstance), "crash" or "none".
Map1Effect(f, wt, map1Voxel) ==
    LET mostSigNibble == map1Voxel \div 4096
        mostSigByte == (map1Voxel \div 256) % 128
        leastSigByte == map1Voxel % 128
    IN IF map1Voxel < 32768
       THEN IF map1Voxel = 0 THEN [op |-> "none"]
            ELSE IF mostSigByte = leastSigByte
                 THEN [op |-> "def", def |-> MakeWallVoxelData(f, mostSigByte)]
                 ELSE [op |-> "def", def |-> MakeRaisedVoxelData(f, wt, map1Voxel, mostSigByte)]
       ELSE IF mostSigNibble = 8
            THEN IF (map1Voxel % 256) > 0
                 THEN [op |-> "flat", flatIndex |-> map1Voxel % 256]
                 ELSE [op |-> "none"]
       ELSE IF mostSigNibble = 9
            THEN [op |-> "def", def |-> MakeType9VoxelData(map1Voxel)]
       ELSE IF mostSigNibble = 10
            THEN IF ((map1Voxel % 64) - 1) >= 0
                 THEN [op |-> "def",
                       def |-> MakeTypeAVoxelData(wt, map1Voxel, (map1Voxel % 64) - 1)]
                 ELSE [op |-> "none"]
       ELSE IF mostSigNibble = 11
            THEN IF DoorType(map1Voxel) = "Unhandled"
                 THEN [op |-> "crash"]
                 ELSE [op |-> "def", def |-> MakeTypeBVoxelData(map1Voxel)]
       ELSE IF mostSigNibble = 13
            THEN [op |-> "def", def |-> MakeTypeDVoxelData(map1Voxel)]
       ELSE [op |-> "none"]

\* One iteration of readMAP1's loop body, at (cx, cz).
ReadMAP1Step ==
    /\ pc = "readMAP1"
    /\ LET map1Voxel == GetLayerVoxel(map1, gridWidth, gridDepth, cx, cz)
           e == Map1Effect(inf, worldType, map1Voxel)
           done == ~(NextX(cx, cz, gridDepth) < gridWidth)
       IN /\ IF e.op = "def"
             THEN LET r == GetDataIndex(voxelData, wallDataMappings, map1Voxel, e.def)
                  IN /\ voxels' = SetVoxel(voxels, cx, 1, cz, r.index)
                     /\ voxelData' = r.data
                     /\ wallDataMappings' = r.map
                     /\ written' = written \cup {<<cx, 1, cz>>}
                     /\ UNCHANGED flatsLists
             ELSE /\ flatsLists' = IF e.op = "flat"
                                   THEN AddFlatInstance(flatsLists, e.flatIndex, <<cx, cz>>)
                                   ELSE flatsLists
                  /\ UNCHANGED <<voxels, voxelData, wallDataMappings, written>>
          /\ IF e.op = "crash"
             THEN /\ pc' = "crash"
                  /\ UNCHANGED <<cx, cz>>
             ELSE /\ cx' = IF done THEN 0 ELSE NextX(cx, cz, gridDepth)
                  /\ cz' = NextZ(cx, cz, gridDepth)
                  /\ pc' = IF done THEN "readMAP2" ELSE "readMAP1"
    /\ UNCHANGED <<gridWidth, gridDepth, flor, map1, map2, inf, worldType,
                   floorDataMappings, chasmDataMappings, map2DataMappings>>
    /\ UNCHANGED <<cityVars, wildVars, palaceVars, cityDefVars, namesVars>>
    /\ UNCHANGED <<animVars, worldVars>>

(***************************************************************************)
(* LevelData::readMAP2.                                                    *)
(***************************************************************************)
\* getMap2VoxelHeight: the tests are made in this order.
GetMap2VoxelHeight(map2Voxel) ==
    IF (map2Voxel \div 128) % 2 = 1 THEN 2
    ELSE IF map2Voxel \div 32768 = 1 THEN 3
    ELSE IF ((map2Voxel \div 128) % 2 = 1) /\ (map2Voxel \div 32768 = 1) THEN 4
    ELSE 1

\* A variant of getMap2DataIndex: the existing mapping is not consulted.
GetMap2DataIndexNoLookup(vd, mm, map2Voxel) ==
    LET textureIndex == (map2Voxel % 128) - 1
        a == AddVoxelData(vd, MakeWall(textureIndex, textureIndex, textureIndex, -1, "Solid"))
    IN [index |-> a.index, data |-> a.data,
        map |-> Append(mm, [key |-> map2Voxel, index |-> a.index])]

GetMap2DataIndex(vd, mm, map2Voxel) ==
    LET i == FindKey(mm, map2Voxel)
        textureIndex == (map2Voxel % 128) - 1
    IN IF i # 0
       THEN [index |-> mm[i].index, data |-> vd, map |-> mm]
       ELSE LET a == AddVoxelData(vd, MakeWall(textureIndex, textureIndex, textureIndex,
                                               -1, "Solid"))
            IN [index |-> a.index, data |-> a.data,
                map |-> Append(mm, [key |-> map2Voxel, index |-> a.index])]

\* One iteration of readMAP2's loop body, at (cx, cz).
ReadMAP2Step ==
    /\ pc = "readMAP2"
    /\ LET map2Voxel == GetLayerVoxel(map2, gridWidth, gridDepth, cx, cz)
           height == GetMap2VoxelHeight(map2Voxel)
           r == GetMap2DataIndex(voxelData, map2DataMappings, map2Voxel)
           ys == 2..(height + 1)
       IN IF map2Voxel # 0
          THEN /\ voxels' = [c \in DOMAIN voxels |->
                               IF (c[1] = cx) /\ (c[3] = cz) /\ (c[2] \in ys)
                               THEN r.index % 65536 ELSE voxels[c]]
               /\ voxelData' = r.data
               /\ map2DataMappings' = r.map
               /\ written' = written \cup {<<cx, y, cz>> : y \in ys}
          ELSE UNCHANGED <<voxels, voxelData, map2DataMappings, written>>
    /\ cx' = IF NextX(cx, cz, gridDepth) < gridWidth THEN NextX(cx, cz, gridDepth) ELSE 0
    /\ cz' = NextZ(cx, cz, gridDepth)
    /\ pc' = IF NextX(cx, cz, gridDepth) < gridWidth THEN "readMAP2" ELSE "done"
    /\ UNCHANGED <<gridWidth, gridDepth, flor, map1, map2, inf, worldType,
                   floorDataMappings, chasmDataMappings, wallDataMappings, flatsLists>>
    /\ UNCHANGED <<cityVars, wildVars, palaceVars, cityDefVars, namesVars>>
    /\ UNCHANGED <<animVars, worldVars>>

(***************************************************************************)
(* Inputs of the decoder: two levels (an INF file and the world type it is *)
(* decoded for), and layers made of a background voxel with at most        *)
(* MaxSpecial other voxels.                                                *)
(***************************************************************************)
LevelConfigs ==
    { [worldType |-> "City", dryChasm |-> 7, lavaChasm |-> 8, wetChasm |-> 9, levelUp |-> Null, levelDown |-> Null,
       menus |-> <<5>>, boxSides |-> [i \in 0..3 |-> 20 + i], boxCaps |-> [i \in 0..1 |-> 30 + i],
       ceilingTexture |-> 3, ceilingHeight |-> 128, boxScale |-> Null],
      [worldType |-> "Wilderness", dryChasm |-> Null, lavaChasm |-> Null, wetChasm |-> Null, levelUp |-> 4, levelDown |-> 5,
       menus |-> <<>>, boxSides |-> [i \in {} |-> 0], boxCaps |-> [i \in {} |-> 0],
       ceilingTexture |-> Null, ceilingHeight |-> 100, boxScale |-> 192] }

\* <<FLOR, MAP1, MAP2>> voxels a cell can hold.
Palette ==
    << <<256, 0, 0>>,          \* 0x0100 floor
       <<258, 1285, 5>>,       \* 0x0102 floor + flat, 0x0505 solid wall, 0x0005
       <<512, 1542, 133>>,     \* 0x0200 floor, 0x0606 solid wall, 0x0085
       <<3072, 1283, 32773>>,  \* 0x0C00 dry chasm, 0x0503 raised platform, 0x8005
       <<3078, 32773, 32901>>, \* 0x0C06 dry chasm + flat, 0x8005 flat, 0x8085
       <<3328, 36869, 6>>,     \* 0x0D00 wet chasm, 0x9005 transparent wall, 0x0006
       <<3584, 37381, 0>>,     \* 0x0E00 lava chasm, 0x9205 transparent wall
       <<256, 41281, 5>>,      \* 0xA141 edge
       <<3072, 40960, 0>>,     \* 0xA000 edge without texture
       <<256, 45061, 0>>,      \* 0xB005 door
       <<256, 53509, 0>>,      \* 0xD105 diagonal
       <<256, 45253, 0>> >>    \* 0xB0C5 door of the unhandled type

\* The palette entry the other cells hold: a floor under a solid wall in the city
\* level, a dry chasm under a flat in the wilderness level.
Backgrounds(wt) == IF wt = "City" THEN {2} ELSE {5}

LayersOf(n, bg, sp) ==
    [l \in 1..3 |-> [i \in 0..(n - 1) |->
        IF i \in DOMAIN sp THEN Palette[sp[i]][l] ELSE Palette[bg][l]]]

(***************************************************************************)
(* Properties of the decoder.                                              *)
(***************************************************************************)
\* The definition a grid cell refers to.
DefAt(c) == voxelData[voxels[c] + 1]

FlorAt(x, z) == GetLayerVoxel(flor, gridWidth, gridDepth, x, z)
Map1At(x, z) == GetLayerVoxel(map1, gridWidth, gridDepth, x, z)
Map2At(x, z) == GetLayerVoxel(map2, gridWidth, gridDepth, x, z)

\* The cache and key of a decoded cell (y = 0: FLOR, y = 1: MAP1, y >= 2: MAP2).
CacheOf(c) ==
    IF c[2] = 0
    THEN (IF IsChasm(GetFloorTextureID(FlorAt(c[1], c[3])))
          THEN chasmDataMappings ELSE floorDataMappings)
    ELSE IF c[2] = 1 THEN wallDataMappings ELSE map2DataMappings

KeyOf(c) ==
    IF c[2] = 0
    THEN (IF IsChasm(GetFloorTextureID(FlorAt(c[1], c[3])))
          THEN <<FlorAt(c[1], c[3]), AdjacentFaces(flor, gridWidth, gridDepth, c[1], c[3])>>
          ELSE FlorAt(c[1], c[3]))
    ELSE IF c[2] = 1 THEN Map1At(c[1], c[3]) ELSE Map2At(c[1], c[3])

\* Which cache a decoded cell was looked up in.
CacheName(c) ==
    IF c[2] = 0
    THEN (IF IsChasm(GetFloorTextureID(FlorAt(c[1], c[3]))) THEN "chasm" ELSE "floor")
    ELSE IF c[2] = 1 THEN "wall" ELSE "map2"

SameKey(c, e) == (CacheName(c) = CacheName(e)) /\ (KeyOf(c) = KeyOf(e))

AllMappings ==
    floorDataMappings \o chasmDataMappings \o wallDataMappings \o map2DataMappings

\* C1: within one LevelData a key (raw code of one layer, plus the adjacency set for
\* chasms) has exactly one cache entry, every cell decoded from that key holds the
\* entry's index, no definition exists besides the ones the entries were created with,
\* and no two entries share an index.
C1_CacheIdempotent ==
    /\ \A c \in written :
         /\ Cardinality({i \in 1..Len(CacheOf(c)) : CacheOf(c)[i].key = KeyOf(c)}) = 1
         /\ voxels[c] = CacheOf(c)[FindKey(CacheOf(c), KeyOf(c))].index
    /\ Len(voxelData) = Len(AllMappings)
    /\ \A i, j \in 1..Len(AllMappings) :
         (AllMappings[i].index = AllMappings[j].index) => (i = j)

\* A key was decoded a second time in each layer.
C1_Witness ==
    /\ pc = "done"
    /\ \E c, e \in written : c # e /\ c[2] = 0 /\ e[2] = 0 /\ SameKey(c, e)
    /\ \E c, e \in written : c # e /\ c[2] = 1 /\ e[2] = 1 /\ SameKey(c, e)
    /\ \E c, e \in written : c[2] = 2 /\ e[2] = 2 /\ c # e /\ SameKey(c, e)

\* C2 as stated: structurally equal definitions are stored under one index.
C2_StructuralDedup ==
    \A i, j \in 1..Len(voxelData) : (voxelData[i] = voxelData[j]) => (i = j)

\* C2 amended: two cells decoded from the same key of the same layer hold the same
\* index, and the definition stored under it is the one that key decodes to.
\* (Structurally equal definitions of different keys get different indices.)
ExpectedDef(c) ==
    IF c[2] = 0
    THEN (IF IsChasm(GetFloorTextureID(FlorAt(c[1], c[3])))
          THEN ChasmVoxelData(inf, GetFloorTextureID(FlorAt(c[1], c[3])),
                              AdjacentFaces(flor, gridWidth, gridDepth, c[1], c[3]))
          ELSE MakeFloor(GetFloorTextureID(FlorAt(c[1], c[3]))))
    ELSE IF c[2] = 1 THEN Map1Effect(inf, worldType, Map1At(c[1], c[3])).def
    ELSE MakeWall((Map2At(c[1], c[3]) % 128) - 1, (Map2At(c[1], c[3]) % 128) - 1,
                  (Map2At(c[1], c[3]) % 128) - 1, -1, "Solid")

C2_SameKeySameIndex ==
    \A c, e \in written :
        SameKey(c, e) => (voxels[c] = voxels[e] /\ DefAt(c) = ExpectedDef(c))

\* Two MAP2 codes that differ only in the height bits were both decoded.
C2_Witness ==
    /\ pc = "done"
    /\ \E c, e \in written :
         /\ c[2] = 2 /\ e[2] = 2
         /\ Map2At(c[1], c[3]) # Map2At(e[1], e[3])
         /\ Map2At(c[1], c[3]) % 128 = Map2At(e[1], e[3]) % 128
    /\ \E c, e \in written : c # e /\ c[2] = 2 /\ e[2] = 2 /\ SameKey(c, e)

\* C3: once the layers are read, every voxel of the grid, written or not, holds the
\* index of an entry of the grid's definition list.
C3_IndicesValid ==
    (pc \in {"readMAP1", "readMAP2", "done"})
        => \A c \in DOMAIN voxels : voxels[c] >= 0 /\ voxels[c] < Len(voxelData)

\* All three layers were read, some cells were written in each and some never.
C3_Witness ==
    /\ pc = "done"
    /\ \E c \in DOMAIN voxels : c \notin written
    /\ \E c \in written : c[2] = 1
    /\ \E c \in written : c[2] = 4

\* C7: a decoded floor cell holds a Chasm definition exactly when its texture ID is one
\* of the three chasm IDs, and then of the matching type.
C7_ChasmDecode ==
    \A c \in written :
        (c[2] = 0) =>
            LET id == GetFloorTextureID(FlorAt(c[1], c[3]))
            IN /\ (~IsChasm(id)) => (DefAt(c).kind = "Floor")
               /\ (id = DRY_CHASM) => (DefAt(c).kind = "Chasm" /\ DefAt(c).type = "Dry")
               /\ (id = LAVA_CHASM) => (DefAt(c).kind = "Chasm" /\ DefAt(c).type = "Lava")
               /\ (id = WET_CHASM) => (DefAt(c).kind = "Chasm" /\ DefAt(c).type = "Wet")

\* A wet chasm and a plain floor were decoded in one level.
C7_Witness ==
    /\ pc = "done"
    /\ \E c, g \in written :
         /\ c[2] = 0 /\ g[2] = 0
         /\ GetFloorTextureID(FlorAt(c[1], c[3])) = WET_CHASM
         /\ DefAt(c).type = "Wet"
         /\ ~IsChasm(GetFloorTextureID(FlorAt(g[1], g[3])))

\* The positions recorded for a flat index, <<>> if it has no def.
FlatPositions(fl, idx) ==
    IF \E i \in 1..Len(fl) : fl[i].flatIndex = idx
    THEN fl[CHOOSE i \in 1..Len(fl) : fl[i].flatIndex = idx].positions
    ELSE <<>>

\* The step appends (cx, cz) to the positions of flat index idx and to no other.
AnchorAdded(idx) ==
    /\ FlatPositions(flatsLists', idx) = Append(FlatPositions(flatsLists, idx), <<cx, cz>>)
    /\ \A o \in 0..255 : (o # idx) => (FlatPositions(flatsLists', o) = FlatPositions(flatsLists, o))

\* The step decodes an object voxel of MAP1 with a flat index.
Map1AnchorStep ==
    /\ pc = "readMAP1"
    /\ Map1At(cx, cz) \div 4096 = 8
    /\ Map1At(cx, cz) % 256 > 0

\* The step decodes a floor voxel with a flat index.
FlorAnchorStep == pc = "readFLOR" /\ FlorAt(cx, cz) % 256 > 0

\* The claim as stated: neither kind of anchor code writes the grid cell.
C15_OriginalStep ==
    /\ Map1AnchorStep =>
          (AnchorAdded(Map1At(cx, cz) % 256) /\ written' = written /\ voxels' = voxels)
    /\ FlorAnchorStep =>
          (AnchorAdded((FlorAt(cx, cz) % 256) - 1) /\ written' = written /\ voxels' = voxels)

C15_Original == [][C15_OriginalStep]_vars

C15_Step ==
    /\ Map1AnchorStep =>
          /\ AnchorAdded(Map1At(cx, cz) % 256)
          /\ written' = written /\ voxels' = voxels /\ voxelData' = voxelData
    /\ FlorAnchorStep =>
          /\ AnchorAdded((FlorAt(cx, cz) % 256) - 1)
          /\ written' = written \cup {<<cx, 0, cz>>}
          /\ voxelData'[voxels'[<<cx, 0, cz>>] + 1].kind =
                (IF (FlorAt(cx, cz) \div 256) \in {12, 13, 14} THEN "Chasm" ELSE "Floor")

\* C15 (amended): object-anchor codes add a position to the object anchor list.  A MAP1
\* code of category 0x8 with nonzero low byte adds the position and does not write a
\* definition index into the grid cell; a floor code with a nonzero low byte adds the
\* position and also writes the index of its floor or chasm definition into the floor
\* cell.
C15_AnchorCodes == [][C15_Step]_vars

\* Both kinds of anchor code were decoded: the floor cell of a position was written, and
\* the MAP1 cell of a position was not.
C15_Witness ==
    /\ pc = "done"
    /\ \E c \in written : c[2] = 0 /\ FlorAt(c[1], c[3]) % 256 > 0
    /\ \E x \in 0..(gridWidth - 1), z \in 0..(gridDepth - 1) :
          /\ Map1At(x, z) \div 4096 = 8 /\ Map1At(x, z) % 256 > 0
          /\ <<x, 1, z>> \notin written
          /\ \E i \in 1..Len(flatsLists) : \E k \in 1..Len(flatsLists[i].positions) :
                flatsLists[i].positions[k] = <<x, z>>

\* The cells in the order of the loops "for x: for z".
LoopCells == [k \in 1..(gridWidth * gridDepth) |-> <<(k - 1) \div gridDepth, (k - 1) % gridDepth>>]

\* Has the loop of the layer passed the cell?
LoopPassed(c, during, after) ==
    \/ pc \in after
    \/ pc \in during /\ ((c[1] * gridDepth) + c[2]) < ((cx * gridDepth) + cz)

\* The anchor codes decoded so far that name flat index idx: floor codes, then MAP1 codes.
AnchorsDecoded(idx) ==
    SelectSeq(LoopCells, LAMBDA c : /\ LoopPassed(c, {"readFLOR"}, {"readMAP1", "readMAP2", "done", "crash"})
                                    /\ FlorAt(c[1], c[2]) % 256 > 0
                                    /\ (FlorAt(c[1], c[2]) % 256) - 1 = idx)
    \o SelectSeq(LoopCells, LAMBDA c : /\ LoopPassed(c, {"readMAP1", "crash"}, {"readMAP2", "done"})
                                       /\ Map1At(c[1], c[2]) \div 4096 = 8
                                       /\ Map1At(c[1], c[2]) % 256 > 0
                                       /\ Map1At(c[1], c[2]) % 256 = idx)

\* The number of positions of the first n defs of the list.
RECURSIVE PositionCount(_, _)
PositionCount(fl, n) == IF n = 0 THEN 0 ELSE PositionCount(fl, n - 1) + Len(fl[n].positions)

\* The anchor codes decoded so far, as <<layer, x, z>>.
AnchorCodes ==
    LET cells == (0..(gridWidth - 1)) \X (0..(gridDepth - 1))
    IN {<<0, c[1], c[2]>> : c \in {e \in cells :
            /\ LoopPassed(e, {"readFLOR"}, {"readMAP1", "readMAP2", "done", "crash"})
            /\ FlorAt(e[1], e[2]) % 256 > 0}}
       \cup {<<1, c[1], c[2]>> : c \in {e \in cells :
            /\ LoopPassed(e, {"readMAP1", "crash"}, {"readMAP2", "done"})
            /\ Map1At(e[1], e[2]) \div 4096 = 8
            /\ Map1At(e[1], e[2]) % 256 > 0}}

\* C16: after any sequence of addFlatInstance calls by readFLOR and readMAP1 the anchor
\* list holds at most one FlatDef per flat index, every FlatDef has at least one
\* position, the positions of a FlatDef are in the order they were added, and the total
\* number of positions equals the number of anchor codes decoded.
C16_FlatsLists ==
    /\ \A i, j \in 1..Len(flatsLists) :
          (flatsLists[i].flatIndex = flatsLists[j].flatIndex) => (i = j)
    /\ \A i \in 1..Len(flatsLists) :
          /\ Len(flatsLists[i].positions) >= 1
          /\ flatsLists[i].positions = AnchorsDecoded(flatsLists[i].flatIndex)
    /\ PositionCount(flatsLists, Len(flatsLists)) = Cardinality(AnchorCodes)

\* A FlatDef holds positions added by readFLOR and by readMAP1, and another FlatDef
\* exists.
C16_Witness ==
    /\ pc = "done"
    /\ Len(flatsLists) >= 2
    /\ \E i \in 1..Len(flatsLists) :
          /\ Len(flatsLists[i].positions) >= 3
          /\ \E x \in 0..(gridWidth - 1), z \in 0..(gridDepth - 1) :
                /\ (FlorAt(x, z) % 256) - 1 = flatsLists[i].flatIndex
                /\ Map1At(x, z) \div 4096 = 8
                /\ Map1At(x, z) % 256 = flatsLists[i].flatIndex

\* The flag of a face of the chasm at (x, z): the neighbour in the grid is not a chasm;
\* there is no neighbour outside the grid.
FaceFlag(x, z) ==
    (x \in 0..(gridWidth - 1)) /\ (z \in 0..(gridDepth - 1))
        /\ (FlorAt(x, z) \div 256) \notin {12, 13, 14}

\* The decoded floor cells that hold a chasm code.
ChasmCells == {c \in written : c[2] = 0 /\ (FlorAt(c[1], c[3]) \div 256) \in {12, 13, 14}}

\* C18: the flags of a decoded chasm for the faces towards x+1, z+1, x-1 and z-1 are
\* true exactly when the neighbour's floor code is not a chasm, the neighbour being
\* clamped into the grid, so the flag of a face on the border of the grid is false;
\* and chasm cells of the same code with different flag sets hold different indices.
C18_ChasmFaces ==
    /\ \A c \in ChasmCells :
          /\ DefAt(c).north = FaceFlag(c[1] + 1, c[3])
          /\ DefAt(c).east = FaceFlag(c[1], c[3] + 1)
          /\ DefAt(c).south = FaceFlag(c[1] - 1, c[3])
          /\ DefAt(c).west = FaceFlag(c[1], c[3] - 1)
    /\ \A c, e \in ChasmCells :
          (<<DefAt(c).north, DefAt(c).east, DefAt(c).south, DefAt(c).west>>
              # <<DefAt(e).north, DefAt(e).east, DefAt(e).south, DefAt(e).west>>)
            => (voxels[c] # voxels[e])

\* Two chasm cells of the same code were decoded with different flag sets, one of them
\* with a solid neighbour and a face on the border.
C18_Witness ==
    /\ pc = "done"
    /\ \E c, e \in ChasmCells :
          /\ FlorAt(c[1], c[3]) = FlorAt(e[1], e[3])
          /\ voxels[c] # voxels[e]
          /\ DefAt(c).south /\ ~DefAt(c).north /\ c[1] = gridWidth - 1
          /\ ~DefAt(e).south

(***************************************************************************)
(* ArenaRandom: value = value * 7143469 (mod 2^32), next() returns bits    *)
(* 16..31.  7143469 = 109 * 2^16 + 45; the 32-bit value is kept as         *)
(* <<high half, low half>> so that no product exceeds 31 bits.             *)
(***************************************************************************)
ArenaRandomNext(r) ==
    << ((r[1] * 45) + (r[2] * 109) + ((r[2] * 45) \div 65536)) % 65536,
       (r[2] * 45) % 65536 >>

\* The value next() returns, given the state it has just moved to.
ArenaRandomValue(r) == r[1]

(***************************************************************************)
(* ExteriorLevelData::generateCity.                                        *)
(***************************************************************************)
\* The model follows a call of generateCity for at most this many random.next() calls.
MaxDraws == 120

\* enum class BlockType, in declaration order.
BlockTypes == <<"Empty", "Reserved", "Equipment", "MagesGuild", "NobleHouse", "Temple",
                "Tavern", "Spacer", "Houses">>

BlockTypeOrdinal(b) == (CHOOSE i \in 1..Len(BlockTypes) : BlockTypes[i] = b) - 1

\* The six initial placements, in call order.
InitialBlocks == <<"Equipment", "MagesGuild", "NobleHouse", "Temple", "Tavern", "Spacer">>

\* A variant with the first two bands exchanged.
FillBlockTypeSwapped(randVal) ==
    IF randVal <= 29491 THEN "Tavern"
    ELSE IF randVal <= 42598 THEN "Houses"
    ELSE IF randVal <= 52428 THEN "Equipment"
    ELSE IF randVal <= 58982 THEN "Temple"
    ELSE "NobleHouse"

\* The plan-fill lambda: block type of a 16-bit draw.
FillBlockType(randVal) ==
    IF randVal <= 29491 THEN "Houses"            \* 0x7333
    ELSE IF randVal <= 42598 THEN "Tavern"       \* 0xA666
    ELSE IF randVal <= 52428 THEN "Equipment"    \* 0xCCCC
    ELSE IF randVal <= 58982 THEN "Temple"       \* 0xE666
    ELSE "NobleHouse"

\* MIFUtils::getCityBlockRotationCount and getCityBlockVariations.
CityBlockRotationCount == 4
CityBlockVariations(blockIndex) == <<13, 11, 10, 12, 15, 11, 8>>[blockIndex + 1]

\* A variant that adds one to the residue.
VariationPlusOne(randomValue, variationCount) == (randomValue % variationCount) + 1

\* The variation of a block: std::max(random.next() % variationCount, 1).
Variation(randomValue, variationCount) == Max(randomValue % variationCount, 1)

\* MIFUtils::makeCityBlockMifName: the name is determined by code, variation, rotation.
MakeCityBlockMifName(blockIndex, variation, rotation) == <<blockIndex, variation, rotation>>

\* Every block template name.
AllCityBlockMifs ==
    {<<b, v, r>> : b \in 0..6, v \in 1..15, r \in 0..(CityBlockRotationCount - 1)}

\* Distance between the origins of neighbouring blocks in the destination layers.
blockStride == 20

\* Voxel i of a layer (1 FLOR, 2 MAP1, 3 MAP2) of the named block template.
BlockVoxel(name, layer, i) ==
    (layer * 8192) + (name[1] * 1024) + (name[2] * 64) + (name[3] * 16) + (i % 16)

CountEmpty(p) == Cardinality({i \in 1..Len(p) : p[i] = "Empty"})

\* A variant that folds an out-of-range block index back into the plan.
MarkReservedWrapped(p, block) == [p EXCEPT ![(block % Len(p)) + 1] = "Reserved"]

\* The body of the reserved-blocks loop: indices past the plan are skipped.
MarkReserved(p, block) ==
    IF block < Len(p) THEN [p EXCEPT ![block + 1] = "Reserved"] ELSE p

\* One pass of the reserved-blocks loop.
MarkReservedStep ==
    /\ cityPc = "reserved"
    /\ ri <= Len(reservedBlocks)
    /\ plan' = MarkReserved(plan, reservedBlocks[ri])
    /\ ri' = ri + 1
    /\ cityPc' = IF ri = Len(reservedBlocks) THEN "initial" ELSE "reserved"
    /\ UNCHANGED <<citySeed, cityDim, reservedBlocks, startPosition, cityGridDepth,
                   cityBlockMifs, blockSize, random, dstLength, dstFlor, dstMap1, dstMap2, placing,
                   fixedPlaced, remainingBlocks, xDim, yDim, draws, fills, stamps, firstRun>>
    /\ UNCHANGED <<levelVars, wildVars, palaceVars, cityDefVars, namesVars>>
    /\ UNCHANGED <<animVars, worldVars>>

\* A variant whose draw also depends on how many calls came before.
PlaceBlockIndexStale(r, citySize) ==
    (ArenaRandomValue(ArenaRandomNext(r)) + Len(firstRun)) % citySize

\* A variant that draws plan cell 0 every time.
PlaceBlockIndexFirst(r, citySize) == 0

\* The plan index placeBlock draws: random.next() % citySize.
PlaceBlockIndex(r, citySize) == ArenaRandomValue(ArenaRandomNext(r)) % citySize

\* One pass of placeBlock's do-while loop, for the block type in "placing"; when the
\* drawn cell is Empty the block is placed and the caller continues.
PlaceBlockStep ==
    /\ cityPc \in {"initial", "fill"}
    /\ placing # "None"
    /\ Len(draws) < MaxDraws
    /\ LET planIndex == PlaceBlockIndex(random, cityDim * cityDim)
           placed == plan[planIndex + 1] = "Empty"
           newPlan == IF placed THEN [plan EXCEPT ![planIndex + 1] = placing] ELSE plan
       IN /\ random' = ArenaRandomNext(random)
          /\ draws' = Append(draws, ArenaRandomValue(ArenaRandomNext(random)))
          /\ plan' = newPlan
          /\ IF ~placed
             THEN UNCHANGED <<cityPc, placing, fixedPlaced, remainingBlocks, fills>>
             ELSE IF cityPc = "initial"
             THEN /\ fixedPlaced' = fixedPlaced + 1
                  /\ UNCHANGED fills
                  /\ IF fixedPlaced + 1 < Len(InitialBlocks)
                     THEN /\ placing' = InitialBlocks[fixedPlaced + 2]
                          /\ UNCHANGED <<cityPc, remainingBlocks>>
                     ELSE /\ placing' = "None"
                          /\ remainingBlocks' = CountEmpty(newPlan)
                          /\ cityPc' = IF CountEmpty(newPlan) > 0 THEN "fill" ELSE "build"
             ELSE /\ remainingBlocks' = remainingBlocks - 1
                  /\ placing' = "None"
                  /\ fills' = [fills EXCEPT ![Len(fills)].planIndex = planIndex]
                  /\ cityPc' = IF remainingBlocks - 1 > 0 THEN "fill" ELSE "build"
                  /\ UNCHANGED fixedPlaced
    /\ UNCHANGED <<citySeed, cityDim, reservedBlocks, startPosition, cityGridDepth,
                   cityBlockMifs, blockSize, dstLength, dstFlor, dstMap1, dstMap2, ri,
                   xDim, yDim, stamps, firstRun>>
    /\ UNCHANGED <<levelVars, wildVars, palaceVars, cityDefVars, namesVars>>
    /\ UNCHANGED <<animVars, worldVars>>

\* The head of one pass of the plan-fill loop: draw randVal and pick the block type.
FillDrawStep ==
    /\ cityPc = "fill"
    /\ placing = "None"
    /\ Len(draws) < MaxDraws
    /\ random' = ArenaRandomNext(random)
    /\ draws' = Append(draws, ArenaRandomValue(ArenaRandomNext(random)))
    /\ placing' = FillBlockType(ArenaRandomValue(ArenaRandomNext(random)))
    /\ fills' = Append(fills, [randVal |-> ArenaRandomValue(ArenaRandomNext(random)),
                               blockType |-> FillBlockType(ArenaRandomValue(ArenaRandomNext(random))),
                               planIndex |-> -1])
    /\ UNCHANGED <<citySeed, cityDim, reservedBlocks, startPosition, cityGridDepth,
                   cityBlockMifs, blockSize, plan, dstLength, dstFlor, dstMap1, dstMap2,
                   cityPc, ri, fixedPlaced, remainingBlocks, xDim, yDim, stamps, firstRun>>
    /\ UNCHANGED <<levelVars, wildVars, palaceVars, cityDefVars, namesVars>>
    /\ UNCHANGED <<animVars, worldVars>>

\* A variant of dstIndex that leaves out the block's row offset.
DstIndexNoRowOffset(xOffset, zOffset, z, rowLength) == xOffset + (z * rowLength)
\* dstIndex of template row z of a block at (xOffset, zOffset).
DstIndex(xOffset, zOffset, z, rowLength) == xOffset + ((z + zOffset) * rowLength)

\* The elements writeRow writes for the block's rows 0 .. depth-1.
RowIndices(xOffset, zOffset, rowLength, size) ==
    {DstIndex(xOffset, zOffset, z, rowLength) + k :
        z \in 0..(size[2] - 1), k \in 0..(size[1] - 1)}

\* The destination layer after the block's rows 0 .. depth-1 were copied in that order
\* (an element two rows cover holds the later row's voxel).
WriteRows(dst, name, layer, xOffset, zOffset, rowLength, size) ==
    LET rows == RowIndices(xOffset, zOffset, rowLength, size)
    IN [i \in (DOMAIN dst) \cup rows |->
           IF i \in rows
           THEN LET z == Min(size[2] - 1, ((i - xOffset) \div rowLength) - zOffset)
                IN BlockVoxel(name, layer,
                              (z * size[1]) + (i - DstIndex(xOffset, zOffset, z, rowLength)))
           ELSE dst[i]]

\* One pass of the build loop, for the plan cell at (xDim, yDim).
BuildStep ==
    /\ cityPc = "build"
    /\ Len(draws) + 2 <= MaxDraws
    /\ LET planIndex == xDim + (yDim * cityDim)
           block == plan[planIndex + 1]
           blockIndex == BlockTypeOrdinal(block) - 2
           r1 == ArenaRandomNext(random)
           rotation == ArenaRandomValue(r1) % CityBlockRotationCount
           r2 == ArenaRandomNext(r1)
           variation == Variation(ArenaRandomValue(r2), CityBlockVariations(blockIndex))
           name == MakeCityBlockMifName(blockIndex, variation, rotation)
           xOffset == startPosition[1] + (xDim * blockStride)
           zOffset == startPosition[2] + (yDim * blockStride)
           lastIndex == DstIndex(xOffset, zOffset, blockSize[2] - 1, cityGridDepth)
                        + blockSize[1] - 1
           last == planIndex + 1 = Len(plan)
           advance == /\ xDim' = IF xDim + 1 = cityDim THEN 0 ELSE xDim + 1
                      /\ yDim' = IF xDim + 1 = cityDim THEN yDim + 1 ELSE yDim
                      /\ cityPc' = IF last THEN "done" ELSE "build"
       IN IF block = "Reserved"
          THEN /\ advance
               /\ UNCHANGED <<random, draws, dstFlor, dstMap1, dstMap2, stamps>>
          ELSE IF block = "Empty"
          THEN \* getCityBlockCode(-2): no block code exists for an Empty cell.
               /\ cityPc' = "undefined"
               /\ UNCHANGED <<random, draws, dstFlor, dstMap1, dstMap2, stamps, xDim, yDim>>
          ELSE /\ random' = r2
               /\ draws' = draws \o <<ArenaRandomValue(r1), ArenaRandomValue(r2)>>
               /\ IF name \notin cityBlockMifs
                  THEN \* DebugCrash("Could not find .MIF file")
                       /\ cityPc' = "crash"
                       /\ UNCHANGED <<dstFlor, dstMap1, dstMap2, stamps, xDim, yDim>>
                  ELSE IF lastIndex >= dstLength
                  THEN \* std::copy past the end of the destination vector
                       /\ cityPc' = "undefined"
                       /\ UNCHANGED <<dstFlor, dstMap1, dstMap2, stamps, xDim, yDim>>
                  ELSE /\ dstFlor' = WriteRows(dstFlor, name, 1, xOffset, zOffset,
                                               cityGridDepth, blockSize)
                       /\ dstMap1' = WriteRows(dstMap1, name, 2, xOffset, zOffset,
                                               cityGridDepth, blockSize)
                       /\ dstMap2' = WriteRows(dstMap2, name, 3, xOffset, zOffset,
                                               cityGridDepth, blockSize)
                       /\ stamps' = Append(stamps, [planIndex |-> planIndex, name |-> name,
                                                    xOffset |-> xOffset, zOffset |-> zOffset])
                       /\ advance
    /\ UNCHANGED <<citySeed, cityDim, reservedBlocks, startPosition, cityGridDepth,
                   cityBlockMifs, blockSize, plan, dstLength, ri, placing, fixedPlaced,
                   remainingBlocks, fills, firstRun>>
    /\ UNCHANGED <<levelVars, wildVars, palaceVars, cityDefVars, namesVars>>
    /\ UNCHANGED <<animVars, worldVars>>

(***************************************************************************)
(* Arguments of generateCity, and a second call with the same arguments.   *)
(***************************************************************************)
MaxCityDim == 3

CitySeeds == {<<4660, 22136>>, <<0, 1>>}              \* 0x12345678, 1
ReservedLists == {<<>>, <<0, 4>>, <<2, 200, 2>>, <<8, 9>>, <<0, 1, 2>>}
StartPositions == {<<0, 0>>, <<1, 2>>}
BlockSizes == {<<2, 3>>, <<3, 2>>, <<blockStride, blockStride>>}
\* All templates, or all but the rotation-0 house blocks.
BlockMifSets == {AllCityBlockMifs, {n \in AllCityBlockMifs : ~(n[1] = 6 /\ n[3] = 0)}}

\* The destination layers hold cityDim blocks a side after the start position.
DstLength(dim, start) ==
    (start[1] + (blockStride * dim) + 2) * (start[2] + (blockStride * dim) + 2)

\* State at entry of generateCity, after "plan" is constructed.
CityEntry ==
    /\ random = citySeed
    /\ plan = [i \in 1..(cityDim * cityDim) |-> "Empty"]
    /\ dstFlor = <<>>
    /\ dstMap1 = <<>>
    /\ dstMap2 = <<>>
    /\ cityPc = IF reservedBlocks = <<>> THEN "initial" ELSE "reserved"
    /\ ri = 1
    /\ placing = InitialBlocks[1]
    /\ fixedPlaced = 0
    /\ remainingBlocks = 0
    /\ xDim = 0
    /\ yDim = 0
    /\ draws = <<>>
    /\ fills = <<>>
    /\ stamps = <<>>

CityInit ==
    /\ citySeed \in CitySeeds
    /\ cityDim \in 2..MaxCityDim
    /\ reservedBlocks \in ReservedLists
    /\ startPosition \in StartPositions
    /\ cityGridDepth = startPosition[1] + (blockStride * cityDim) + 2
    /\ dstLength = DstLength(cityDim, startPosition)
    /\ cityBlockMifs \in BlockMifSets
    /\ blockSize \in BlockSizes
    /\ firstRun = <<>>
    /\ CityEntry

\* What a call of generateCity produced.
CityOutputs ==
    [plan |-> plan, draws |-> draws, dstFlor |-> dstFlor, dstMap1 |-> dstMap1,
     dstMap2 |-> dstMap2]

\* generateCity is called a second time with the arguments of the first call.
GenerateCityAgain ==
    /\ cityPc = "done"
    /\ firstRun = <<>>
    /\ firstRun' = <<CityOutputs>>
    /\ random' = citySeed
    /\ plan' = [i \in 1..(cityDim * cityDim) |-> "Empty"]
    /\ dstFlor' = <<>>
    /\ dstMap1' = <<>>
    /\ dstMap2' = <<>>
    /\ cityPc' = IF reservedBlocks = <<>> THEN "initial" ELSE "reserved"
    /\ ri' = 1
    /\ placing' = InitialBlocks[1]
    /\ fixedPlaced' = 0
    /\ remainingBlocks' = 0
    /\ xDim' = 0
    /\ yDim' = 0
    /\ draws' = <<>>
    /\ fills' = <<>>
    /\ stamps' = <<>>
    /\ UNCHANGED <<citySeed, cityDim, reservedBlocks, startPosition, cityGridDepth,
                   cityBlockMifs, blockSize, dstLength>>
    /\ UNCHANGED <<levelVars, wildVars, palaceVars, cityDefVars, namesVars>>
    /\ UNCHANGED <<animVars, worldVars>>

\* generateCity is not running.
CityIdle ==
    /\ citySeed = <<0, 0>> /\ cityDim = 0 /\ reservedBlocks = <<>>
    /\ startPosition = <<0, 0>> /\ cityGridDepth = 0 /\ cityBlockMifs = {}
    /\ blockSize = <<0, 0>> /\ random = <<0, 0>> /\ plan = <<>>
    /\ dstFlor = <<>> /\ dstMap1 = <<>> /\ dstMap2 = <<>>
    /\ cityPc = "idle" /\ ri = 1 /\ placing = "None" /\ fixedPlaced = 0
    /\ remainingBlocks = 0 /\ xDim = 0 /\ yDim = 0
    /\ draws = <<>> /\ fills = <<>> /\ stamps = <<>> /\ firstRun = <<>>
    /\ dstLength = 0

\* The .MIF file when MIFFile::init failed.
NoMif == [ok |-> FALSE, width |-> 0, depth |-> 0, shift |-> 0]

\* No door or fade is animated, and no ExteriorWorldData exists.
NoInterior == [held |-> FALSE, worldData |-> 0, returnVoxel |-> <<0, 0>>]
AnimIdle ==
    percentOpen = 0 /\ direction = "None" /\ currentSeconds = 0 /\ targetSeconds = 0
WorldIdle ==
    isCity = FALSE /\ interior = NoInterior /\ returnVoxel = <<0, 0>> /\ worldPc = "idle"

\* No city definition is in use.
CityDefIdle == mif = NoMif /\ premade = FALSE

(***************************************************************************)
(* ExteriorLevelData::generateWildernessIndices.                           *)
(***************************************************************************)
wildWidth == 64
wildHeight == 64

WildListNames == {"normalBlocks", "villageBlocks", "dungeonBlocks", "tavernBlocks",
                  "templeBlocks"}

\* A variant whose tavern comparison also accepts the threshold itself.
WildBlockListInclusive(randVal) ==
    IF randVal < 26214 THEN "normalBlocks"
    ELSE IF randVal - 26214 < 16384 THEN "villageBlocks"
    ELSE IF randVal - 26214 - 16384 < 9830 THEN "dungeonBlocks"
    ELSE IF randVal - 26214 - 16384 - 9830 <= 6553 THEN "tavernBlocks"
    ELSE "templeBlocks"

\* The blockList lambda: the list a 16-bit draw selects (normalVal 0x6666, villageVal
\* 0x4000, dungeonVal 0x2666, tavernVal 0x1999; the draw is reduced after each miss).
WildBlockList(randVal) ==
    IF randVal < 26214 THEN "normalBlocks"
    ELSE IF randVal - 26214 < 16384 THEN "villageBlocks"
    ELSE IF randVal - 26214 - 16384 < 9830 THEN "dungeonBlocks"
    ELSE IF randVal - 26214 - 16384 - 9830 < 6553 THEN "tavernBlocks"
    ELSE "templeBlocks"

\* How many of the 65536 values of a draw select each list.
WildBandSize ==
    [l \in WildListNames |-> Cardinality({r \in 0..65535 : WildBlockList(r) = l})]

\* A variant that returns the position in the list in place of the element there.
WildCellPosition(r, wd) ==
    LET r1 == ArenaRandomNext(r)
        list == WildBlockList(ArenaRandomValue(r1))
        r2 == ArenaRandomNext(r1)
        blockListIndex == (ArenaRandomValue(r2) % 256) % Len(wd[list])
    IN [random |-> r2, randVal |-> ArenaRandomValue(r1), list |-> list,
        pick |-> blockListIndex]

\* The generator lambda for one cell: two draws, the list and the element picked.
WildCell(r, wd) ==
    LET r1 == ArenaRandomNext(r)
        list == WildBlockList(ArenaRandomValue(r1))
        r2 == ArenaRandomNext(r1)
        blockListIndex == (ArenaRandomValue(r2) % 256) % Len(wd[list])
    IN [random |-> r2, randVal |-> ArenaRandomValue(r1), list |-> list,
        pick |-> wd[list][blockListIndex + 1]]

\* Buffer2D: element (x, y) is at x + y * width.
Buffer2DIndex(x, y) == x + (y * wildWidth)

\* The four indices.set calls for the city in the centre.
SetCityIndices(buf) ==
    LET cityX == (wildWidth \div 2) - 1
        cityY == (wildHeight \div 2) - 1
    IN [buf EXCEPT ![Buffer2DIndex(cityX, cityY) + 1] = 1,
                   ![Buffer2DIndex(cityX + 1, cityY) + 1] = 2,
                   ![Buffer2DIndex(cityX, cityY + 1) + 1] = 3,
                   ![Buffer2DIndex(cityX + 1, cityY + 1) + 1] = 4]

\* std::generate is followed a quarter of a row at a time.
WildChunk == wildWidth \div 4

\* The generator state before each cell of the next chunk (two draws per cell).
RandomBefore(r) ==
    LET st[j \in 0..WildChunk] ==
            IF j = 0 THEN r ELSE ArenaRandomNext(ArenaRandomNext(st[j - 1]))
    IN st

\* std::generate, for the next WildChunk elements.
GenerateStep ==
    /\ wildPc = "generate"
    /\ Len(indices) < wildWidth * wildHeight
    /\ LET st == RandomBefore(wildRandom)
           cells == [i \in 1..WildChunk |-> WildCell(st[i - 1], wildData)]
       IN /\ wildRandom' = cells[WildChunk].random
          /\ indices' = indices \o [i \in 1..WildChunk |-> cells[i].pick]
          /\ wildRow' = [i \in 1..WildChunk |->
                            <<cells[i].randVal, cells[i].list, cells[i].pick>>]
    /\ wildPc' = IF Len(indices) + WildChunk = wildWidth * wildHeight
                 THEN "city" ELSE "generate"
    /\ UNCHANGED <<wildSeed, wildData>>
    /\ UNCHANGED <<levelVars, cityVars, palaceVars, cityDefVars, namesVars>>
    /\ UNCHANGED <<animVars, worldVars>>

\* The city indices are set and the buffer is returned.
SetCityIndicesStep ==
    /\ wildPc = "city"
    /\ indices' = SetCityIndices(indices)
    /\ wildPc' = "done"
    /\ UNCHANGED <<wildSeed, wildData, wildRandom, wildRow>>
    /\ UNCHANGED <<levelVars, cityVars, palaceVars, cityDefVars, namesVars>>
    /\ UNCHANGED <<animVars, worldVars>>

\* Arguments: seeds, and lists of 1 .. MaxListSize template IDs each.
MaxListSize == 3
WildSeeds == {<<4660, 22136>>, <<0, 1>>, <<43981, 61185>>}
WildData(n) ==
    [l \in WildListNames |->
        [i \in 1..(IF l = "normalBlocks" THEN n ELSE IF l = "templeBlocks" THEN 1
                   ELSE (n + 1) \div 2) |->
            (CASE l = "normalBlocks" -> 4
               [] l = "villageBlocks" -> 20
               [] l = "dungeonBlocks" -> 30
               [] l = "tavernBlocks" -> 40
               [] l = "templeBlocks" -> 50) + i]]

WildInit ==
    /\ wildSeed \in WildSeeds
    /\ wildData \in {WildData(n) : n \in 1..MaxListSize}
    /\ wildRandom = wildSeed
    /\ indices = <<>>
    /\ wildRow = <<>>
    /\ wildPc = "generate"

\* generateWildernessIndices is not running.
WildIdle ==
    /\ wildSeed = <<0, 0>> /\ wildData = <<>> /\ wildRandom = <<0, 0>>
    /\ indices = <<>> /\ wildRow = <<>> /\ wildPc = "idle"

(***************************************************************************)
(* ExteriorLevelData::revisePalaceGraphics.  map1 is indexed by element;   *)
(* getMap1Voxel reads element z + x * gridDepth through a raw pointer,     *)
(* setMap1Voxel asserts that the element exists.                           *)
(***************************************************************************)
NO_GATE == -1
MAX_GATE_DIST == 8

\* The least element of a non-empty set of integers.
SetMin(S) == CHOOSE a \in S : \A b \in S : a <= b

Map1Index(d, x, z) == z + (x * d)
InMap1(m, i) == i \in DOMAIN m
MostSigNibble(voxel) == (voxel % 65536) \div 4096
IsPalaceBlock(m, d, x, z) == MostSigNibble(m[Map1Index(d, x, z)]) = 9
IsGateVoxel(voxel) == MostSigNibble(voxel) = 10

\* A variant that visits the corners too.
SearchPalaceCorners(m, w, d) ==
    LET zs == {z \in 0..(d - 1) : IsPalaceBlock(m, d, 0, z) \/ IsPalaceBlock(m, d, w - 1, z)}
        xs == {x \in 0..(w - 1) : IsPalaceBlock(m, d, x, 0) \/ IsPalaceBlock(m, d, x, d - 1)}
    IN IF zs # {}
       THEN [side |-> IF IsPalaceBlock(m, d, 0, SetMin(zs)) THEN "North" ELSE "South",
             offset |-> SetMin(zs)]
       ELSE IF xs # {}
       THEN [side |-> IF IsPalaceBlock(m, d, SetMin(xs), 0) THEN "East" ELSE "West",
             offset |-> SetMin(xs)]
       ELSE [side |-> "None", offset |-> 0]

\* A variant that scans each edge to its end before it looks at the next one.
SearchPalaceEdgeByEdge(m, w, d) ==
    LET ns == {z \in 1..(d - 2) : IsPalaceBlock(m, d, 0, z)}
        ss == {z \in 1..(d - 2) : IsPalaceBlock(m, d, w - 1, z)}
        es == {x \in 1..(w - 2) : IsPalaceBlock(m, d, x, 0)}
        ws == {x \in 1..(w - 2) : IsPalaceBlock(m, d, x, d - 1)}
    IN IF ns # {} THEN [side |-> "North", offset |-> SetMin(ns)]
       ELSE IF ss # {} THEN [side |-> "South", offset |-> SetMin(ss)]
       ELSE IF es # {} THEN [side |-> "East", offset |-> SetMin(es)]
       ELSE IF ws # {} THEN [side |-> "West", offset |-> SetMin(ws)]
       ELSE [side |-> "None", offset |-> 0]

\* The search lambda: north and south edges by increasing z, then east and west edges
\* by increasing x; the corners are not visited.
SearchPalace(m, w, d) ==
    LET zs == {z \in 1..(d - 2) : IsPalaceBlock(m, d, 0, z) \/ IsPalaceBlock(m, d, w - 1, z)}
        xs == {x \in 1..(w - 2) : IsPalaceBlock(m, d, x, 0) \/ IsPalaceBlock(m, d, x, d - 1)}
    IN IF zs # {}
       THEN [side |-> IF IsPalaceBlock(m, d, 0, SetMin(zs)) THEN "North" ELSE "South",
             offset |-> SetMin(zs)]
       ELSE IF xs # {}
       THEN [side |-> IF IsPalaceBlock(m, d, SetMin(xs), 0) THEN "East" ELSE "West",
             offset |-> SetMin(xs)]
       ELSE [side |-> "None", offset |-> 0]

\* A variant whose north and south palace step goes into the grid.
PalaceCaseInward(side, w, d, offset) ==
    CASE side = "North" ->
           [first |-> <<w - 1, offset>>, step |-> <<-1, 0>>, gateDir |-> <<-1, 0>>,
            firstID |-> 42421, secondID |-> 42420, gateID |-> 41395]
      [] side = "South" ->
           [first |-> <<0, offset>>, step |-> <<1, 0>>, gateDir |-> <<1, 0>>,
            firstID |-> 42292, secondID |-> 42293, gateID |-> 41267]
      [] side = "East" ->
           [first |-> <<offset, d - 1>>, step |-> <<-1, 0>>, gateDir |-> <<0, -1>>,
            firstID |-> 42356, secondID |-> 42357, gateID |-> 41331]
      [] side = "West" ->
           [first |-> <<offset, 0>>, step |-> <<-1, 0>>, gateDir |-> <<0, 1>>,
            firstID |-> 42485, secondID |-> 42484, gateID |-> 41459]

\* The four cases: first palace voxel, step to the second one, gate direction and the
\* replacement codes (0xA5B5 0xA5B4 0xA1B3, 0xA534 0xA535 0xA133, 0xA574 0xA575 0xA173,
\* 0xA5F5 0xA5F4 0xA1F3).
PalaceCase(side, w, d, offset) ==
    CASE side = "North" ->
           [first |-> <<w - 1, offset>>, step |-> <<0, -1>>, gateDir |-> <<-1, 0>>,
            firstID |-> 42421, secondID |-> 42420, gateID |-> 41395]
      [] side = "South" ->
           [first |-> <<0, offset>>, step |-> <<0, -1>>, gateDir |-> <<1, 0>>,
            firstID |-> 42292, secondID |-> 42293, gateID |-> 41267]
      [] side = "East" ->
           [first |-> <<offset, d - 1>>, step |-> <<-1, 0>>, gateDir |-> <<0, -1>>,
            firstID |-> 42356, secondID |-> 42357, gateID |-> 41331]
      [] side = "West" ->
           [first |-> <<offset, 0>>, step |-> <<-1, 0>>, gateDir |-> <<0, 1>>,
            firstID |-> 42485, secondID |-> 42484, gateID |-> 41459]

\* A variant of getGateDistance that looks one voxel further.
GateDistancesInclusive(m, d, palaceVoxel, dir) ==
    LET index(i) == Map1Index(d, palaceVoxel[1] + (dir[1] * i), palaceVoxel[2] + (dir[2] * i))
        canBeGate(i) == (~InMap1(m, index(i))) \/ IsGateVoxel(m[index(i)])
        canBeOther(i) == (~InMap1(m, index(i))) \/ ~IsGateVoxel(m[index(i)])
    IN {i \in 0..MAX_GATE_DIST : canBeGate(i) /\ \A j \in 0..(i - 1) : canBeOther(j)}
       \cup (IF \A j \in 0..MAX_GATE_DIST : canBeOther(j) THEN {NO_GATE} ELSE {})
\* getGateDistance: every value the loop can return.  A read of an element that does
\* not exist yields an arbitrary voxel.
GateDistances(m, d, palaceVoxel, dir) ==
    LET index(i) == Map1Index(d, palaceVoxel[1] + (dir[1] * i), palaceVoxel[2] + (dir[2] * i))
        canBeGate(i) == (~InMap1(m, index(i))) \/ IsGateVoxel(m[index(i)])
        canBeOther(i) == (~InMap1(m, index(i))) \/ ~IsGateVoxel(m[index(i)])
    IN {i \in 0..(MAX_GATE_DIST - 1) : canBeGate(i) /\ \A j \in 0..(i - 1) : canBeOther(j)}
       \cup (IF \A j \in 0..(MAX_GATE_DIST - 1) : canBeOther(j) THEN {NO_GATE} ELSE {})

\* setMap1Voxel for a sequence of <<x, z, voxel>>; the first element that does not
\* exist fails DebugAssertIndex and the remaining writes do not happen.
RECURSIVE SetMap1Voxels(_, _, _)
SetMap1Voxels(m, d, writes) ==
    IF writes = <<>> THEN [map1 |-> m, ok |-> TRUE]
    ELSE LET index == Map1Index(d, writes[1][1], writes[1][2])
         IN IF ~InMap1(m, index) THEN [map1 |-> m, ok |-> FALSE]
            ELSE SetMap1Voxels([m EXCEPT ![index] = writes[1][3]], d, Tail(writes))

RevisePalaceGraphics ==
    /\ pc = "revisePalace"
    /\ LET res == SearchPalace(map1, gridWidth, gridDepth)
       IN /\ result' = res
          /\ IF res.side = "None"
             THEN /\ debugLog' = Append(debugLog, "No palace graphics found to revise.")
                  /\ UNCHANGED <<map1, gateDist>>
                  /\ pc' = "revised"
             ELSE LET c == PalaceCase(res.side, gridWidth, gridDepth, res.offset)
                      second == <<c.first[1] + c.step[1], c.first[2] + c.step[2]>>
                  IN \E dist \in GateDistances(map1, gridDepth, c.first, c.gateDir) :
                        LET firstGate == <<c.first[1] + (c.gateDir[1] * dist),
                                           c.first[2] + (c.gateDir[2] * dist)>>
                            secondGate == <<firstGate[1] + c.step[1], firstGate[2] + c.step[2]>>
                            writes == <<<<c.first[1], c.first[2], c.firstID>>,
                                        <<second[1], second[2], c.secondID>>>>
                                      \o (IF dist # NO_GATE
                                          THEN <<<<firstGate[1], firstGate[2], c.gateID>>,
                                                 <<secondGate[1], secondGate[2], c.gateID>>>>
                                          ELSE <<>>)
                            out == SetMap1Voxels(map1, gridDepth, writes)
                        IN /\ gateDist' = dist
                           /\ map1' = out.map1
                           /\ UNCHANGED debugLog
                           /\ pc' = IF out.ok THEN "revised" ELSE "crash"
    /\ UNCHANGED <<gridWidth, gridDepth, flor, map2, inf, worldType, voxels, voxelData,
                   floorDataMappings, chasmDataMappings, wallDataMappings, map2DataMappings,
                   flatsLists, written, cx, cz>>
    /\ UNCHANGED <<cityVars, wildVars, cityDefVars, namesVars>>
    /\ UNCHANGED <<animVars, worldVars>>

\* revisePalaceGraphics has not run.
PalaceIdle == result = [side |-> "None", offset |-> 0] /\ gateDist = Null /\ debugLog = <<>>

\* Grids handed to revisePalaceGraphics: palace markers on the perimeter and at most
\* one gate marker, on a background of plain walls.  The grids wide enough for a gate
\* search that stays inside the layer carry at most one palace marker, the narrow ones
\* up to MaxPalaceMarkers.
MaxPalaceWidth == 10
MaxPalaceDepth == 4
MaxPalaceMarkers == 2
PalaceWidths == {3, 4, MaxPalaceWidth - 1, MaxPalaceWidth}
PalaceDepths == {3, MaxPalaceDepth}
PalaceMarkerCount(w) == IF w = 4 THEN MaxPalaceMarkers ELSE 1

\* The subsets of S with at most n elements.
RECURSIVE SubsetsUpTo(_, _)
SubsetsUpTo(S, n) ==
    IF n = 0 THEN {{}}
    ELSE LET T == SubsetsUpTo(S, n - 1) IN T \cup {t \cup {e} : t \in T, e \in S}

Perimeter(w, d) ==
    {i \in 0..((w * d) - 1) : (i \div d) \in {0, w - 1} \/ (i % d) \in {0, d - 1}}

PalaceInit ==
    /\ gridWidth \in PalaceWidths
    /\ gridDepth \in PalaceDepths
    /\ \E P \in SubsetsUpTo(Perimeter(gridWidth, gridDepth), PalaceMarkerCount(gridWidth)) :
       \E G \in SubsetsUpTo(0..((gridWidth * gridDepth) - 1), 1) :
          map1 = [i \in 0..((gridWidth * gridDepth) - 1) |->
                     IF i \in P THEN 9 * 4096 + 5          \* 0x9005
                     ELSE IF i \in G THEN 10 * 4096 + 1    \* 0xA001
                     ELSE 261]                              \* 0x0105
    /\ flor = <<>> /\ map2 = <<>>
    /\ inf = Null /\ worldType = "City"
    /\ voxels = <<>> /\ voxelData = <<>>
    /\ floorDataMappings = <<>> /\ chasmDataMappings = <<>>
    /\ wallDataMappings = <<>> /\ map2DataMappings = <<>>
    /\ flatsLists = <<>> /\ written = {}
    /\ pc = "revisePalace" /\ cx = 0 /\ cz = 0
    /\ PalaceIdle

(***************************************************************************)
(* ExteriorLevelData::reviseWildernessCity.  flor, map1 and map2 are the   *)
(* wilderness buffers, kept for the elements of the placeholder (no other  *)
(* element is written); dstFlor, dstMap1 and dstMap2 are the city buffers. *)
(***************************************************************************)
RMDFileWidth == 64
RMDFileDepth == 64

\* Width of the wilderness buffers: 64 * RMDFile::WIDTH.
WildBufferWidth == 64 * RMDFileWidth

\* The elements of the wilderness buffers that clearRow fills.
Placeholder ==
    {(RMDFileDepth * 31) + j + ((x + (RMDFileWidth * 31)) * WildBufferWidth) :
        x \in 0..((RMDFileWidth * 2) - 1), j \in 0..((RMDFileDepth * 2) - 1)}

\* The voxels of a .MIF level (1 FLOR, 2 MAP1, 3 MAP2): walls of the three kinds the
\* wilderness keeps, other walls, objects and empty cells.
MifPalette ==
    << <<256, 12079, 32901>>,    \* 0x2F2F under 0x8085
       <<512, 11565, 133>>,      \* 0x2D2D under 0x0085
       <<258, 11822, 32773>>,    \* 0x2E2E under 0x8005
       <<256, 12336, 12336>>,    \* 0x3030 under 0x3030
       <<3072, 32773, 5>>,       \* 0x8005 under 0x0005
       <<256, 44975, 0>>,        \* 0xAFAF
       <<256, 1285, 133>>,       \* 0x0505 under 0x0085
       <<256, 11565, 0>>,        \* 0x2D2D under nothing
       <<256, 0, 0>> >>

MifLevel(m, layer) ==
    [i \in 0..((m.width * m.depth) - 1) |->
        MifPalette[((i + m.shift) % Len(MifPalette)) + 1][layer]]

\* What the wilderness buffers hold before the city is written.
WildVoxel(layer, i) == (layer * 4096) + 1 + (i % 5)

\* A variant that applies the substitutions one after the other.
TransformVoxelChained(map1Voxel, map2Voxel) ==
    LET wall == 12336 + (32768 * ((map2Voxel \div 32768) % 2)) + (128 * ((map2Voxel \div 128) % 2))
    IN IF (map1Voxel \div 32768) % 2 = 1 THEN <<0, 0>>
       ELSE IF map1Voxel \notin {12079, 11565, 11822} THEN <<0, 0>>
       ELSE IF map1Voxel \in {12079, 11565} THEN <<12336, wall>>
       ELSE <<map1Voxel, wall>>

\* The body of the transform loop: the new <<MAP1, MAP2>> voxels.
\* 0x2F2F = 12079, 0x2D2D = 11565, 0x2E2E = 11822, 0x3030 = 12336.
TransformVoxel(map1Voxel, map2Voxel) ==
    LET wall == 12336 + (32768 * ((map2Voxel \div 32768) % 2)) + (128 * ((map2Voxel \div 128) % 2))
    IN IF (map1Voxel \div 32768) % 2 = 1 THEN <<0, 0>>
       ELSE IF ~(map1Voxel = 12079 \/ map1Voxel = 11565 \/ map1Voxel = 11822) THEN <<0, 0>>
       ELSE IF map1Voxel = 12079 THEN <<12336, wall>>
       ELSE IF map1Voxel = 11565 THEN <<12079, wall>>
       ELSE IF map1Voxel = 11822 THEN <<map1Voxel, wall>>
       ELSE <<map1Voxel, map2Voxel>>

\* The loop that clears the placeholder city blocks.
ClearPlaceholder ==
    /\ pc = "clearPlaceholder"
    /\ flor' = [i \in DOMAIN flor |-> IF i \in Placeholder THEN 0 ELSE flor[i]]
    /\ map1' = [i \in DOMAIN map1 |-> IF i \in Placeholder THEN 0 ELSE map1[i]]
    /\ map2' = [i \in DOMAIN map2 |-> IF i \in Placeholder THEN 0 ELSE map2[i]]
    /\ pc' = "initMif"
    /\ UNCHANGED <<gridWidth, gridDepth, inf, worldType, voxels, voxelData, floorDataMappings,
                   chasmDataMappings, wallDataMappings, map2DataMappings, flatsLists, written,
                   cx, cz>>
    /\ UNCHANGED <<cityVars, wildVars, palaceVars, cityDefVars, namesVars>>
    /\ UNCHANGED <<animVars, worldVars>>

\* mif.init, the copy of the level into the city buffers and, for a city that is not
\* premade, the call of generateCity with a generator seeded with the city seed.
InitMif ==
    /\ pc = "initMif"
    /\ IF ~mif.ok
       THEN /\ debugLog' = Append(debugLog, "Couldn't init .MIF file")
            /\ pc' = "returned"
            /\ UNCHANGED cityVars
       ELSE /\ dstFlor' = MifLevel(mif, 1)
            /\ dstMap1' = MifLevel(mif, 2)
            /\ dstMap2' = MifLevel(mif, 3)
            /\ UNCHANGED debugLog
            /\ IF premade
               THEN /\ pc' = "transform"
                    /\ UNCHANGED <<random, plan, cityPc>>
               ELSE /\ pc' = "generateCity"
                    /\ random' = citySeed
                    /\ plan' = [i \in 1..(cityDim * cityDim) |-> "Empty"]
                    /\ cityPc' = IF reservedBlocks = <<>> THEN "initial" ELSE "reserved"
            /\ UNCHANGED <<citySeed, cityDim, reservedBlocks, startPosition, cityGridDepth,
                           cityBlockMifs, blockSize, dstLength, ri, placing, fixedPlaced,
                           remainingBlocks, xDim, yDim, draws, fills, stamps, firstRun>>
    /\ UNCHANGED <<gridWidth, gridDepth, flor, map1, map2, inf, worldType, voxels, voxelData,
                   floorDataMappings, chasmDataMappings, wallDataMappings, map2DataMappings,
                   flatsLists, written, cx, cz>>
    /\ UNCHANGED <<wildVars, result, gateDist, cityDefVars, namesVars>>
    /\ UNCHANGED <<animVars, worldVars>>

\* The loop that transforms the city voxels, once generateCity has returned.
TransformCity ==
    /\ (pc = "transform") \/ (pc = "generateCity" /\ cityPc = "done")
    /\ dstMap1' = [i \in DOMAIN dstMap1 |-> TransformVoxel(dstMap1[i], dstMap2[i])[1]]
    /\ dstMap2' = [i \in DOMAIN dstMap2 |-> TransformVoxel(dstMap1[i], dstMap2[i])[2]]
    /\ pc' = "writeCity"
    /\ UNCHANGED <<gridWidth, gridDepth, flor, map1, map2, inf, worldType, voxels, voxelData,
                   floorDataMappings, chasmDataMappings, wallDataMappings, map2DataMappings,
                   flatsLists, written, cx, cz>>
    /\ UNCHANGED <<citySeed, cityDim, reservedBlocks, startPosition, cityGridDepth,
                   cityBlockMifs, blockSize, random, plan, dstLength, dstFlor, cityPc, ri,
                   placing, fixedPlaced, remainingBlocks, xDim, yDim, draws, fills, stamps,
                   firstRun>>
    /\ UNCHANGED <<wildVars, palaceVars, cityDefVars, namesVars>>
    /\ UNCHANGED <<animVars, worldVars>>

\* The wilderness layer after writeRow copied rows 0 .. depth-1 of the city layer.
WriteCityRows(dst, src, m) ==
    [i \in DOMAIN dst |->
        LET z == (i \div WildBufferWidth) - (RMDFileDepth * 31)
            k == (i % WildBufferWidth) - (RMDFileWidth * 31)
        IN IF (z \in 0..(m.depth - 1)) /\ (k \in 0..(m.width - 1))
           THEN src[(z * m.width) + k]
           ELSE dst[i]]

\* The loop that writes the city buffers into the wilderness.
WriteCity ==
    /\ pc = "writeCity"
    /\ flor' = WriteCityRows(flor, dstFlor, mif)
    /\ map1' = WriteCityRows(map1, dstMap1, mif)
    /\ map2' = WriteCityRows(map2, dstMap2, mif)
    /\ pc' = "returned"
    /\ UNCHANGED <<gridWidth, gridDepth, inf, worldType, voxels, voxelData, floorDataMappings,
                   chasmDataMappings, wallDataMappings, map2DataMappings, flatsLists, written,
                   cx, cz>>
    /\ UNCHANGED <<cityVars, wildVars, palaceVars, cityDefVars, namesVars>>
    /\ UNCHANGED <<animVars, worldVars>>

\* The .MIF files of cities: premade ones up to MaxMifWidth voxels a side, and one that
\* holds three blocks a side after either start position.
MaxMifWidth == 3
PremadeMifs ==
    {[ok |-> TRUE, width |-> w, depth |-> w, shift |-> sh] : w \in 2..MaxMifWidth, sh \in 0..1}
GeneratedMif == [ok |-> TRUE, width |-> 4 + (blockStride * 3), depth |-> 4 + (blockStride * 3), shift |-> 0]

\* The arguments of reviseWildernessCity.
ReviseInit ==
    /\ gridWidth = WildBufferWidth
    /\ gridDepth = WildBufferWidth
    /\ flor = [i \in Placeholder |-> WildVoxel(1, i)]
    /\ map1 = [i \in Placeholder |-> WildVoxel(2, i)]
    /\ map2 = [i \in Placeholder |-> WildVoxel(3, i)]
    /\ inf = Null /\ worldType = "Wilderness"
    /\ voxels = <<>> /\ voxelData = <<>>
    /\ floorDataMappings = <<>> /\ chasmDataMappings = <<>>
    /\ wallDataMappings = <<>> /\ map2DataMappings = <<>>
    /\ flatsLists = <<>> /\ written = {}
    /\ pc = "clearPlaceholder" /\ cx = 0 /\ cz = 0
    /\ premade \in BOOLEAN
    /\ IF premade
       THEN /\ mif \in PremadeMifs \cup {NoMif}
            /\ CityIdle
       ELSE /\ mif \in {GeneratedMif, NoMif}
            /\ citySeed \in CitySeeds
            /\ cityDim = 3
            /\ reservedBlocks = <<0, 4>>
            /\ startPosition \in StartPositions
            /\ cityGridDepth = GeneratedMif.width
            /\ dstLength = GeneratedMif.width * GeneratedMif.depth
            /\ cityBlockMifs \in BlockMifSets
            /\ blockSize = <<2, 3>>
            /\ random = <<0, 0>> /\ plan = <<>>
            /\ dstFlor = <<>> /\ dstMap1 = <<>> /\ dstMap2 = <<>>
            /\ cityPc = "idle" /\ ri = 1 /\ placing = InitialBlocks[1] /\ fixedPlaced = 0
            /\ remainingBlocks = 0 /\ xDim = 0 /\ yDim = 0
            /\ draws = <<>> /\ fills = <<>> /\ stamps = <<>> /\ firstRun = <<>>

(***************************************************************************)
(* ExteriorLevelData::generateBuildingNames for a city level.  "random" is *)
(* the generator loadCity seeded with the city seed; (cx, cz) is the voxel *)
(* the scan of the running generateNames call is at.                       *)
(***************************************************************************)
\* The order of the three generateNames calls.
\* A variant that names the temples before the equipment stores.
MenuTypesTempleFirst == <<"Tavern", "Temple", "Equipment">>
MenuTypes == <<"Tavern", "Equipment", "Temple">>

\* VoxelDefinition::WallData::getMenuType for a city: the *MENU IDs 0 to 13.
GetMenuType(menuID) ==
    IF menuID \in 0..13
    THEN <<"Equipment", "Tavern", "MagesGuild", "Temple", "House", "House", "House",
           "CityGates", "CityGates", "Noble", "None", "Palace", "Palace", "Palace">>[menuID + 1]
    ELSE "None"

\* LocationUtils::getLocalCityPoint and the seed (x << 16) + y made of it.
LocalCitySeed(seed) == <<seed[1] % 65536, seed[2] % 65536>>

\* matchesTargetType: the main-floor voxel at (x, z) is a *MENU wall of the type.
MatchesTargetType(x, z, type) ==
    LET voxelDef == voxelData[voxels[<<x, 1, z>>] + 1]
    IN (voxelDef.kind = "Wall") /\ (voxelDef.type = "Menu")
          /\ (GetMenuType(voxelDef.menuID) = type)

\* The divisors of the two draws: 23 and 23, 20 and 10, 3 and ModelVars[model].
PrefixCount(type) == IF type = "Tavern" THEN 23 ELSE IF type = "Equipment" THEN 20 ELSE 3
\* A variant with nine suffixes for the third temple model.
SuffixCountShort(type, m) ==
    IF type = "Tavern" THEN 23 ELSE IF type = "Equipment" THEN 10 ELSE <<5, 9, 9>>[m + 1]

SuffixCount(type, m) ==
    IF type = "Tavern" THEN 23 ELSE IF type = "Equipment" THEN 10 ELSE <<5, 9, 10>>[m + 1]

\* The hashes (m << 8) + n the draws of a type can make.
HashSpace(type) ==
    UNION {{(m * 256) + n : n \in 0..(SuffixCount(type, m) - 1)} :
               m \in 0..(PrefixCount(type) - 1)}

\* A variant of hashInSeen that only looks at the hash used last.
HashInSeenLast(hashes, hash) == (hashes # <<>>) /\ (hashes[Len(hashes)] = hash)

HashInSeen(hashes, hash) == \E i \in 1..Len(hashes) : hashes[i] = hash

\* createTavernName, createEquipmentName, createTempleName: the name is determined by
\* the type, the two indices and, for an equipment store, the voxel.
CreateName(type, m, n, x, z) ==
    IF type = "Equipment" THEN <<type, m, n, x, z>> ELSE <<type, m, n>>

\* menuNames after the main quest override of a generateNames call.
ApplyOverride(names, type, o) ==
    IF (type = "Temple") /\ o.has /\ (o.menuNamesIndex + 1 \in DOMAIN names)
    THEN [names EXCEPT ![o.menuNamesIndex + 1].name =
              CreateName("Temple", o.modelIndex, o.suffixIndex, 0, 0)]
    ELSE names

\* tryGenerateBlockName at (cx, cz), one pass of its do-while loop at a time; after
\* the last voxel the call ends with the override and the next call begins.  A loop
\* that has no unused hash left draws for ever: pc = "spinning" stands for that.
TryGenerateBlockName ==
    /\ pc = "generateNames"
    /\ LET r1 == ArenaRandomNext(random)
           r2 == ArenaRandomNext(r1)
           m == ArenaRandomValue(r1) % PrefixCount(menuType)
           n == ArenaRandomValue(r2) % SuffixCount(menuType, m)
           hash == (m * 256) + n
           matches == MatchesTargetType(cx, cz, menuType)
           redraw == matches /\ HashInSeen(seen, hash)
           names == IF matches
                    THEN Append(menuNames, [position |-> <<cx, cz>>,
                                            name |-> CreateName(menuType, m, n, cx, cz)])
                    ELSE menuNames
           last == (cx = 0) /\ (cz = 0)
           typeIndex == CHOOSE i \in 1..Len(MenuTypes) : MenuTypes[i] = menuType
           badIndex == (menuType = "Temple") /\ mainQuestTempleOverride.has
                          /\ (mainQuestTempleOverride.menuNamesIndex + 1 \notin DOMAIN names)
       IN IF redraw /\ (HashSpace(menuType) \subseteq {seen[i] : i \in 1..Len(seen)})
          THEN \* every hash of the type is in seen: the do-while loop cannot end
               /\ pc' = "spinning"
               /\ UNCHANGED <<random, menuNames, seen, menuType, cx, cz>>
          ELSE IF redraw
          THEN /\ random' = r2
               /\ UNCHANGED <<menuNames, seen, menuType, pc, cx, cz>>
          ELSE /\ seen' = IF last THEN <<>> ELSE IF matches THEN Append(seen, hash) ELSE seen
               /\ menuNames' = IF last THEN ApplyOverride(names, menuType, mainQuestTempleOverride)
                                ELSE names
               /\ cx' = IF last THEN gridWidth - 1 ELSE IF cz = 0 THEN cx - 1 ELSE cx
               /\ cz' = IF cz = 0 THEN gridDepth - 1 ELSE cz - 1
               /\ menuType' = IF last /\ typeIndex < Len(MenuTypes)
                               THEN MenuTypes[typeIndex + 1] ELSE menuType
               /\ pc' = IF last /\ badIndex THEN "crash"
                         ELSE IF last /\ typeIndex = Len(MenuTypes) THEN "named"
                         ELSE "generateNames"
               /\ random' = IF last /\ typeIndex < Len(MenuTypes) /\ ~badIndex
                             THEN LocalCitySeed(citySeed)
                             ELSE IF matches THEN r2 ELSE random
    /\ UNCHANGED <<gridWidth, gridDepth, flor, map1, map2, inf, worldType, voxels, voxelData,
                   floorDataMappings, chasmDataMappings, wallDataMappings, map2DataMappings,
                   flatsLists, written>>
    /\ UNCHANGED <<citySeed, cityDim, reservedBlocks, startPosition, cityGridDepth,
                   cityBlockMifs, blockSize, plan, dstLength, dstFlor, dstMap1, dstMap2,
                   cityPc, ri, placing, fixedPlaced, remainingBlocks, xDim, yDim, draws, fills,
                   stamps, firstRun>>
    /\ UNCHANGED <<wildVars, palaceVars, cityDefVars, mainQuestTempleOverride>>
    /\ UNCHANGED <<animVars, worldVars>>

\* generateBuildingNames is not running.
NoOverride == [has |-> FALSE, modelIndex |-> 0, suffixIndex |-> 0, menuNamesIndex |-> 0]
NamesIdle ==
    menuNames = <<>> /\ seen = <<>> /\ menuType = "Tavern" /\ mainQuestTempleOverride = NoOverride

\* The levels generateBuildingNames is called for: grids up to MaxNamesWidth by
\* MaxNamesDepth whose main-floor voxels repeat a pattern of *MENU IDs (-1: a solid
\* wall, -2: air).
MaxNamesWidth == 3
MaxNamesDepth == 4
MenuPatterns == {<<3>>, <<1>>, <<0>>, <<3, 1, 0, -1, 4, -2>>, <<3, 3, 1>>}

\* Two levels of temples only: one with as many temples as there are temple hashes
\* (5 + 9 + 10) and one with one more.
TempleCityWidth == 5
TempleCityDepth == 5
TempleCities == {<<TempleCityWidth - 1, TempleCityDepth + 1>>, <<TempleCityWidth, TempleCityDepth>>}

\* The definitions of such a level: air, a solid wall and a *MENU wall per ID.
NamesVoxelData ==
    <<[kind |-> "Air"], MakeWall(5, 5, 5, -1, "Solid")>>
        \o [i \in 1..14 |-> MakeWall(5, 5, 5, i - 1, "Menu")]

NamesVoxels(w, d, pattern) ==
    [c \in (0..(w - 1)) \X (0..(levelHeight - 1)) \X (0..(d - 1)) |->
        IF c[2] = 1
        THEN pattern[(((c[1] * d) + c[3]) % Len(pattern)) + 1] + 2
        ELSE 0]

Overrides ==
    {NoOverride,
     [has |-> TRUE, modelIndex |-> 1, suffixIndex |-> 3, menuNamesIndex |-> 0],
     [has |-> TRUE, modelIndex |-> 2, suffixIndex |-> 9, menuNamesIndex |-> 7]}

\* State at entry of generateBuildingNames, before generateNames(Tavern).
NamesInit ==
    /\ \/ /\ gridWidth \in 1..MaxNamesWidth
          /\ gridDepth \in {2, MaxNamesDepth}
          /\ \E pattern \in MenuPatterns : voxels = NamesVoxels(gridWidth, gridDepth, pattern)
       \/ \E g \in TempleCities :
             /\ gridWidth = g[1]
             /\ gridDepth = g[2]
             /\ voxels = NamesVoxels(gridWidth, gridDepth, <<3>>)
    /\ voxelData = NamesVoxelData
    /\ flor = <<>> /\ map1 = <<>> /\ map2 = <<>>
    /\ inf = Null /\ worldType = "City"
    /\ floorDataMappings = <<>> /\ chasmDataMappings = <<>>
    /\ wallDataMappings = <<>> /\ map2DataMappings = <<>>
    /\ flatsLists = <<>> /\ written = {}
    /\ pc = "generateNames" /\ cx = gridWidth - 1 /\ cz = gridDepth - 1
    /\ citySeed \in CitySeeds
    /\ random \in {citySeed, ArenaRandomNext(citySeed)}
    /\ cityDim = 0 /\ reservedBlocks = <<>>
    /\ startPosition = <<0, 0>> /\ cityGridDepth = 0 /\ cityBlockMifs = {}
    /\ blockSize = <<0, 0>> /\ plan = <<>>
    /\ dstFlor = <<>> /\ dstMap1 = <<>> /\ dstMap2 = <<>>
    /\ cityPc = "idle" /\ ri = 1 /\ placing = "None" /\ fixedPlaced = 0
    /\ remainingBlocks = 0 /\ xDim = 0 /\ yDim = 0
    /\ draws = <<>> /\ fills = <<>> /\ stamps = <<>> /\ firstRun = <<>>
    /\ dstLength = 0
    /\ menuNames = <<>> /\ seen = <<>> /\ menuType = "Tavern"
    /\ mainQuestTempleOverride \in Overrides

(***************************************************************************)
(* Properties of generateBuildingNames.                                    *)
(***************************************************************************)
\* The hash (prefix << 8) + suffix an entry's name was made from.
NameHash(name) == (name[2] * 256) + name[3]

\* The entries of menuNames whose name is of a menu type.
EntriesOf(type) == SelectSeq(menuNames, LAMBDA e : e.name[1] = type)

\* The menu types whose generateNames call is over.
TypesDone ==
    {MenuTypes[i] : i \in {j \in 1..Len(MenuTypes) :
        \/ pc = "named" /\ ~mainQuestTempleOverride.has
        \/ pc = "generateNames" /\ \E k \in (j + 1)..Len(MenuTypes) : MenuTypes[k] = menuType}}

\* C11: within one generateBuildingNames pass of a city level for one category (tavern,
\* equipment or temple) a draw whose hash (prefix << 8) + suffix was already used in
\* that pass is drawn again, so no two entries appended for that category come from
\* the same hash.
C11_NoRepeatedHash ==
    /\ (pc = "generateNames") =>
          /\ Len(EntriesOf(menuType)) = Len(seen)
          /\ \A k \in 1..Len(seen) : seen[k] = NameHash(EntriesOf(menuType)[k].name)
          /\ \A i, j \in 1..Len(seen) : (seen[i] = seen[j]) => (i = j)
    /\ \A type \in TypesDone :
          \A i, j \in 1..Len(EntriesOf(type)) :
              (NameHash(EntriesOf(type)[i].name) = NameHash(EntriesOf(type)[j].name)) => (i = j)

\* The generator after k more draws.
RECURSIVE RandomAfter(_, _)
RandomAfter(r, k) == IF k = 0 THEN r ELSE RandomAfter(ArenaRandomNext(r), k - 1)

\* In the temple pass a pair of draws was thrown away: the generator has made one pair
\* of draws more than names were appended since it was seeded.
C11_Witness ==
    /\ pc = "generateNames"
    /\ menuType = "Temple"
    /\ Len(seen) >= 2
    /\ random = RandomAfter(LocalCitySeed(citySeed), 2 * (Len(seen) + 1))

(***************************************************************************)
(* Properties of reviseWildernessCity.                                     *)
(***************************************************************************)
\* C12, as stated: generation never returns normally when the city's .MIF file could
\* not be loaded or a block template was not found.
C12_MissingTemplateFatal ==
    /\ (~mif.ok) => (pc # "returned")
    /\ (cityPc = "crash") => (pc = "generateCity")
    /\ (pc = "returned" /\ \E i \in Placeholder : map1[i] # WildVoxel(2, i)) => mif.ok

C19_Step ==
    (pc # "writeCity" /\ pc' = "writeCity") =>
        /\ dstFlor' = dstFlor
        /\ DOMAIN dstMap1' = DOMAIN dstMap1
        /\ DOMAIN dstMap2' = DOMAIN dstMap2
        /\ \A i \in DOMAIN dstMap1 :
              LET old1 == dstMap1[i]
                  old2 == dstMap2[i]
                  wall == 12336 + (32768 * ((old2 \div 32768) % 2)) + (128 * ((old2 \div 128) % 2))
              IN /\ (old1 >= 32768 \/ old1 \notin {12079, 11565, 11822}) =>
                       (dstMap1'[i] = 0 /\ dstMap2'[i] = 0)
                 /\ (old1 = 12079) => (dstMap1'[i] = 12336 /\ dstMap2'[i] = wall)
                 /\ (old1 = 11565) => (dstMap1'[i] = 12079 /\ dstMap2'[i] = wall)
                 /\ (old1 = 11822) => (dstMap1'[i] = 11822 /\ dstMap2'[i] = wall)
                 /\ dstMap1'[i] \in {0, 12336, 12079, 11822}

\* C19: reviseWildernessCity transforms each city voxel exactly once: a MAP1 code with
\* the top bit set, or any code other than 0x2F2F, 0x2D2D, 0x2E2E, becomes 0 with MAP2
\* 0; 0x2F2F becomes 0x3030, 0x2D2D becomes 0x2F2F and 0x2E2E is kept, each with MAP2 =
\* 0x3030 | (old MAP2 & 0x8080); results are not substituted again, FLOR is unchanged,
\* and every resulting MAP1 code is 0, 0x3030, 0x2F2F or 0x2E2E.
C19_Transform == [][C19_Step]_vars

\* A premade city was transformed: a 0x2D2D wall ended as 0x2F2F, a 0x2F2F wall as
\* 0x3030 over a MAP2 voxel that kept its two high bits, and an object voxel as 0.
C19_Witness ==
    /\ pc = "writeCity"
    /\ premade
    /\ \E i, j, k \in DOMAIN dstMap1 :
          /\ MifLevel(mif, 2)[i] = 11565 /\ dstMap1[i] = 12079
          /\ MifLevel(mif, 2)[j] = 12079 /\ dstMap1[j] = 12336 /\ dstMap2[j] = 12336 + 32768 + 128
          /\ MifLevel(mif, 2)[k] >= 32768 /\ dstMap1[k] = 0 /\ dstMap2[k] = 0

(***************************************************************************)
(* Properties of revisePalaceGraphics.                                     *)
(***************************************************************************)
\* The MAP1 voxel at (x, z) of a layer.
PalaceVoxel(m, x, z) == m[Map1Index(gridDepth, x, z)]

\* The layer holds exactly one top-nibble-0x9 voxel, at (0, k) off the corners.
OneNorthMarker(m, k) ==
    /\ k \in 1..(gridDepth - 2)
    /\ {i \in DOMAIN m : MostSigNibble(m[i]) = 9} = {Map1Index(gridDepth, 0, k)}

\* The distances below 8 at which a top-nibble-0xA voxel lies, from (gridWidth-1, k)
\* towards smaller x.
NorthGates(m, k) ==
    {i \in 0..7 : (gridWidth - 1) - i >= 0
                  /\ MostSigNibble(PalaceVoxel(m, (gridWidth - 1) - i, k)) = 10}

\* The claim as stated: the second palace code is at (gridWidth-2, k).
C10_OriginalStep ==
    \A k \in 0..(gridDepth - 1) :
        (pc = "revisePalace" /\ pc' # "revisePalace" /\ OneNorthMarker(map1, k)) =>
            /\ PalaceVoxel(map1', gridWidth - 1, k) = 42421
            /\ PalaceVoxel(map1', gridWidth - 2, k) = 42420
            /\ (NorthGates(map1, k) # {}) =>
                  /\ PalaceVoxel(map1', (gridWidth - 1) - SetMin(NorthGates(map1, k)), k) = 41395
                  /\ Cardinality({i \in DOMAIN map1' : map1'[i] = 41395}) = 2

C10_Original == [][C10_OriginalStep]_vars

C10_NorthStep ==
    \A k \in 0..(gridDepth - 1) :
        (pc = "revisePalace" /\ pc' # "revisePalace" /\ OneNorthMarker(map1, k)) =>
            /\ result'.side = "North" /\ result'.offset = k
            /\ (NorthGates(map1, k) = {} \/ SetMin(NorthGates(map1, k)) >= 1) =>
                  /\ PalaceVoxel(map1', gridWidth - 1, k) = 42421
                  /\ PalaceVoxel(map1', gridWidth - 1, k - 1) = 42420
            /\ (NorthGates(map1, k) # {}) =>
                  /\ pc' = "revised"
                  /\ gateDist' = SetMin(NorthGates(map1, k))
                  /\ PalaceVoxel(map1', (gridWidth - 1) - gateDist', k) = 41395
                  /\ PalaceVoxel(map1', (gridWidth - 1) - gateDist', k - 1) = 41395

\* C10 (amended): given a MAP1 grid with exactly one top-nibble-0x9 voxel, at (0, k) on
\* the north edge off the corners, after revisePalaceGraphics the voxels (gridWidth-1, k)
\* and (gridWidth-1, k-1) carry 0xA5B5 and 0xA5B4, and if a top-nibble-0xA voxel lies at
\* (gridWidth-1-i, k) for some i below 8, then for the least such i the voxels
\* (gridWidth-1-i, k) and (gridWidth-1-i, k-1) carry 0xA1B3 (for i = 0 in place of the
\* palace codes).
C10_NorthPalace == [][C10_NorthStep]_vars

\* The revision has matched the north edge, found the gate some cells away and written
\* the two palace codes and the two gate codes.
C10_Witness ==
    /\ pc = "revised"
    /\ result.side = "North"
    /\ {i \in DOMAIN map1 : MostSigNibble(map1[i]) = 9} = {Map1Index(gridDepth, 0, result.offset)}
    /\ gateDist >= 2
    /\ PalaceVoxel(map1, gridWidth - 1, result.offset) = 42421
    /\ PalaceVoxel(map1, gridWidth - 1, result.offset - 1) = 42420
    /\ PalaceVoxel(map1, (gridWidth - 1) - gateDist, result.offset) = 41395
    /\ PalaceVoxel(map1, (gridWidth - 1) - gateDist, result.offset - 1) = 41395

\* The perimeter cells <<x, z>> of the layer that are not corners.
NonCornerPerimeter ==
    {c \in (0..(gridWidth - 1)) \X (0..(gridDepth - 1)) :
        \/ c[1] \in {0, gridWidth - 1} /\ c[2] \in 1..(gridDepth - 2)
        \/ c[2] \in {0, gridDepth - 1} /\ c[1] \in 1..(gridWidth - 2)}

C13_Step ==
    (pc = "revisePalace"
     /\ \A c \in NonCornerPerimeter : MostSigNibble(PalaceVoxel(map1, c[1], c[2])) # 9) =>
        /\ pc' = "revised"
        /\ map1' = map1
        /\ debugLog' = Append(debugLog, "No palace graphics found to revise.")

\* C13: if no non-corner perimeter voxel of the MAP1 grid has top nibble 0x9,
\* revisePalaceGraphics records a warning, returns normally and leaves every MAP1 voxel
\* unchanged.
C13_NoMarkerNoChange == [][C13_Step]_vars

\* The revision has returned with the warning on a grid whose only top-nibble-0x9 voxel
\* is in a corner.
C13_Witness ==
    /\ pc = "revised"
    /\ result.side = "None"
    /\ debugLog = <<"No palace graphics found to revise.">>
    /\ \E i \in {0, gridDepth - 1, (gridWidth - 1) * gridDepth, (gridWidth * gridDepth) - 1} :
          MostSigNibble(map1[i]) = 9

\* The top-nibble-0x9 voxels of an edge, as the offsets along it off the corners.
EdgeMarkers(side) ==
    CASE side = "North" -> {z \in 1..(gridDepth - 2) : MostSigNibble(PalaceVoxel(map1, 0, z)) = 9}
      [] side = "South" ->
           {z \in 1..(gridDepth - 2) : MostSigNibble(PalaceVoxel(map1, gridWidth - 1, z)) = 9}
      [] side = "East" -> {x \in 1..(gridWidth - 2) : MostSigNibble(PalaceVoxel(map1, x, 0)) = 9}
      [] side = "West" ->
           {x \in 1..(gridWidth - 2) : MostSigNibble(PalaceVoxel(map1, x, gridDepth - 1)) = 9}

\* The claim as stated: the whole north edge is looked at before the south edge, the
\* whole east edge before the west edge.
C20_OriginalStep ==
    (pc = "revisePalace" /\ pc' # "revisePalace") =>
        /\ (EdgeMarkers("North") # {}) =>
              result' = [side |-> "North", offset |-> SetMin(EdgeMarkers("North"))]
        /\ (EdgeMarkers("North") = {} /\ EdgeMarkers("South") # {}) =>
              result' = [side |-> "South", offset |-> SetMin(EdgeMarkers("South"))]
        /\ (EdgeMarkers("North") \cup EdgeMarkers("South") # {}) =>
              result'.side \in {"North", "South"}
        /\ result'.side \in {"East", "West"} => result'.offset \in 1..(gridWidth - 2)
        /\ result'.side \in {"North", "South"} => result'.offset \in 1..(gridDepth - 2)

C20_Original == [][C20_OriginalStep]_vars

\* The candidates of a pair of opposite edges, ranked by offset first and, at the same
\* offset, the first edge of the pair before the second.
RankedMarkers(a, b) ==
    {<<(2 * o), a, o>> : o \in EdgeMarkers(a)} \cup {<<(2 * o) + 1, b, o>> : o \in EdgeMarkers(b)}

\* The candidate of least rank.
FirstRanked(S) == CHOOSE c \in S : \A e \in S : c[1] <= e[1]

C20_Step ==
    (pc = "revisePalace" /\ pc' # "revisePalace") =>
        LET ns == RankedMarkers("North", "South")
            ew == RankedMarkers("East", "West")
        IN /\ (ns # {}) =>
                 result' = [side |-> FirstRanked(ns)[2], offset |-> FirstRanked(ns)[3]]
           /\ (ns = {} /\ ew # {}) =>
                 result' = [side |-> FirstRanked(ew)[2], offset |-> FirstRanked(ew)[3]]
           /\ (ns = {} /\ ew = {}) => result'.side = "None"

\* C20 (amended): revisePalaceGraphics looks at the offsets 1 .. gridDepth-2 in rising
\* order and at each offset at the north edge first and the south edge second, then at
\* the offsets 1 .. gridWidth-2 in rising order and at each offset at the east edge
\* first and the west edge second, and stops at the first top-nibble-0x9 voxel.  A north
\* marker is chosen over a south marker only when its offset is not larger; east and
\* west are looked at only when north and south hold none; corners are never looked at.
C20_SearchOrder == [][C20_Step]_vars

\* The revision has matched the south edge although the north edge holds a marker, at
\* a larger offset.
C20_Witness ==
    /\ pc # "revisePalace"
    /\ result.side = "South"
    /\ result.offset = 1
    /\ MostSigNibble(PalaceVoxel(map1, 0, 2)) = 9

(***************************************************************************)
(* Properties of generateWildernessIndices.                                *)
(***************************************************************************)
\* Element (x, y) of the buffer.
IndexAt(x, y) == indices[Buffer2DIndex(x, y) + 1]

\* Every template ID of the five lists.
WildPoolIDs == UNION {{wildData[l][i] : i \in 1..Len(wildData[l])} : l \in WildListNames}

\* C8: the returned 64x64 grid holds 1 at (31,31), 2 at (32,31), 3 at (31,32) and 4 at
\* (32,32), and every other cell holds a template ID that is in one of the five lists
\* (as does every cell while the grid is generated).
C8_CentreAndPools ==
    /\ (wildPc # "done") =>
          \A i \in 1..Len(wildRow) : indices[Len(indices) - Len(wildRow) + i] \in WildPoolIDs
    /\ (wildPc = "done") =>
        /\ Len(indices) = 64 * 64
        /\ IndexAt(31, 31) = 1
        /\ IndexAt(32, 31) = 2
        /\ IndexAt(31, 32) = 3
        /\ IndexAt(32, 32) = 4
        /\ \A x, y \in 0..63 :
              (<<x, y>> \notin {<<31, 31>>, <<32, 31>>, <<31, 32>>, <<32, 32>>}) =>
                  IndexAt(x, y) \in WildPoolIDs

\* A grid was returned whose cells next to the centre come from at least two lists and
\* whose lists hold none of 1 .. 4.
C8_Witness ==
    /\ wildPc = "done"
    /\ WildPoolIDs \cap (1..4) = {}
    /\ IndexAt(31, 31) = 1
    /\ IndexAt(32, 32) = 4
    /\ Cardinality({IndexAt(x, y) : x \in 29..34, y \in 29..34}) >= 6

\* The list of a draw by cumulative intervals.
WildBandOf(r) ==
    IF r <= 26213 THEN "normalBlocks"
    ELSE IF r <= 42597 THEN "villageBlocks"
    ELSE IF r <= 52427 THEN "dungeonBlocks"
    ELSE IF r <= 58980 THEN "tavernBlocks"
    ELSE "templeBlocks"

\* The selection and the partition, as claimed and as amended.
WildBandsPartition ==
    /\ \A c \in 1..Len(wildRow) :
          /\ wildRow[c][1] \in 0..65535
          /\ wildRow[c][2] = WildBandOf(wildRow[c][1])
          /\ \E i \in 1..Len(wildData[wildRow[c][2]]) :
                wildRow[c][3] = wildData[wildRow[c][2]][i]
    /\ WildBandSize["normalBlocks"] + WildBandSize["villageBlocks"]
       + WildBandSize["dungeonBlocks"] + WildBandSize["tavernBlocks"]
       + WildBandSize["templeBlocks"] = 65536

\* The claim as stated: the temple band is the smallest.
C9_Original ==
    /\ WildBandsPartition
    /\ WildBandSize["normalBlocks"] > WildBandSize["villageBlocks"]
    /\ WildBandSize["villageBlocks"] > WildBandSize["dungeonBlocks"]
    /\ WildBandSize["dungeonBlocks"] > WildBandSize["tavernBlocks"]
    /\ WildBandSize["tavernBlocks"] > WildBandSize["templeBlocks"]

\* C9 (amended): the list of a cell is selected from one 16-bit draw by cumulative
\* thresholds (normal, village, dungeon, tavern, and temple for the remainder), the
\* bands partition 0 .. 0xFFFF, and their sizes are ordered normal > village > dungeon
\* > temple > tavern: 26214, 16384, 9830, 6555 and 6553 values.
C9_BandOrder ==
    /\ WildBandsPartition
    /\ WildBandSize["normalBlocks"] = 26214
    /\ WildBandSize["villageBlocks"] = 16384
    /\ WildBandSize["dungeonBlocks"] = 9830
    /\ WildBandSize["templeBlocks"] = 6555
    /\ WildBandSize["tavernBlocks"] = 6553
    /\ WildBandSize["normalBlocks"] > WildBandSize["villageBlocks"]
    /\ WildBandSize["villageBlocks"] > WildBandSize["dungeonBlocks"]
    /\ WildBandSize["dungeonBlocks"] > WildBandSize["templeBlocks"]
    /\ WildBandSize["templeBlocks"] > WildBandSize["tavernBlocks"]

\* Cells were generated from a draw of the tavern band and from a draw of the temple
\* band, the remainder.
C9_Witness ==
    /\ wildPc = "generate"
    /\ \E c \in 1..Len(wildRow) :
          /\ wildRow[c][1] >= 58981
          /\ wildRow[c][2] = "templeBlocks"
          /\ wildRow[c][3] = indices[Len(indices) - Len(wildRow) + c]
    /\ \E c \in 1..Len(wildRow) : wildRow[c][2] = "tavernBlocks"

(***************************************************************************)
(* Properties of generateCity.                                             *)
(***************************************************************************)
CountOf(p, b) == Cardinality({i \in 1..Len(p) : p[i] = b})

\* The reserved indices that lie inside the plan.
ReservedInRange == {reservedBlocks[i] : i \in 1..Len(reservedBlocks)} \cap (0..(Len(plan) - 1))

\* The plan cell whose block area holds destination element i.
PlanCellOf(i) ==
    (((i % cityGridDepth) - startPosition[1]) \div blockStride)
    + ((((i \div cityGridDepth) - startPosition[2]) \div blockStride) * cityDim)

C5_PlanContents ==
    (Len(plan) - Cardinality(ReservedInRange) >= 6) =>
        /\ (cityPc \in {"fill", "build", "done"} /\ fills = <<>>) =>
              \A b \in {InitialBlocks[i] : i \in 1..Len(InitialBlocks)} : CountOf(plan, b) = 1
        /\ (cityPc \in {"build", "done"}) =>
              /\ CountOf(plan, "Empty") = 0
              /\ CountOf(plan, "MagesGuild") = 1
              /\ CountOf(plan, "Spacer") = 1
              /\ CountOf(plan, "Reserved") = Cardinality(ReservedInRange)
              /\ Len(fills) = Len(plan) - Cardinality(ReservedInRange) - 6
              /\ \A k \in 1..Len(fills) :
                    /\ fills[k].randVal \in 0..65535
                    /\ plan[fills[k].planIndex + 1] = fills[k].blockType
                    /\ fills[k].blockType =
                          (IF fills[k].randVal <= 29491 THEN "Houses"
                           ELSE IF fills[k].randVal <= 42598 THEN "Tavern"
                           ELSE IF fills[k].randVal <= 52428 THEN "Equipment"
                           ELSE IF fills[k].randVal <= 58982 THEN "Temple"
                           ELSE "NobleHouse")
                    /\ \A j \in 1..Len(fills) : (j # k) => fills[j].planIndex # fills[k].planIndex
              /\ \A b \in {"Houses", "Tavern", "Equipment", "Temple", "NobleHouse"} :
                    CountOf(plan, b) =
                        (IF b = "Houses" THEN 0 ELSE 1)
                        + Cardinality({k \in 1..Len(fills) : fills[k].blockType = b})

\* Stamping starts on a plan with reserved cells and fills from two different bands.
C5_Witness ==
    /\ cityPc = "build"
    /\ stamps = <<>>
    /\ Cardinality(ReservedInRange) > 0
    /\ Len(plan) - Cardinality(ReservedInRange) >= 6
    /\ \E j, k \in 1..Len(fills) : fills[j].blockType # fills[k].blockType

\* The residues of a draw modulo count that select variation v.
ResiduesOf(v, count) == {res \in 0..(count - 1) : Variation(res, count) = v}

\* The step stamps a block: the draws it makes and the template it names.
StampStep(P(_, _, _, _, _)) ==
    (cityPc = "build" /\ Len(stamps') = Len(stamps) + 1) =>
        /\ Len(draws') = Len(draws) + 2
        /\ P(draws'[Len(draws) + 1], draws'[Len(draws) + 2],
             stamps'[Len(stamps')].name[3], stamps'[Len(stamps')].name[2],
             CityBlockVariations(stamps'[Len(stamps')].name[1]))

\* The claim as stated: every variation that can be selected is selected by the same
\* number of residues.
C17_OriginalStep ==
    StampStep(LAMBDA d1, d2, rotation, variation, count :
        /\ rotation = d1 % CityBlockRotationCount
        /\ variation >= 1
        /\ variation \in {Variation(res, count) : res \in 0..(count - 1)}
        /\ variation = Variation(d2 % count, count)
        /\ \A v, u \in {Variation(res, count) : res \in 0..(count - 1)} :
              Cardinality(ResiduesOf(v, count)) = Cardinality(ResiduesOf(u, count)))

C17_Original == [][C17_OriginalStep]_vars

C17_Step ==
    StampStep(LAMBDA d1, d2, rotation, variation, count :
        /\ rotation = d1 % CityBlockRotationCount
        /\ variation \in 1..(count - 1)
        /\ variation = (IF d2 % count = 0 THEN 1 ELSE d2 % count)
        /\ ResiduesOf(1, count) = {0, 1}
        /\ \A v \in 2..(count - 1) : ResiduesOf(v, count) = {v})

\* C17 (amended): for every stamped plan cell generateCity draws the rotation first and
\* the variation second; the variation is the second draw modulo the category's
\* variation count, raised to 1 when that residue is 0, so it is at least 1 and at most
\* the count minus one, and it is not uniform: variation 1 is selected by the two
\* residues 0 and 1, every other variation by one residue.
C17_Variation == [][C17_Step]_vars

\* A block was stamped with variation 1 on a second draw that is a multiple of the
\* category's variation count, after a block with a larger variation.
C17_Witness ==
    /\ Len(stamps) >= 2
    /\ Len(draws) >= 2
    /\ cityPc \in {"build", "done"}
    /\ stamps[Len(stamps)].name[2] = 1
    /\ draws[Len(draws)] % CityBlockVariations(stamps[Len(stamps)].name[1]) = 0
    /\ \E k \in 1..(Len(stamps) - 1) : stamps[k].name[2] > 1

\* C6: in every state after the reserved-blocks loop each in-range reserved index is
\* Reserved in the plan, no block is stamped for it and no destination element of its
\* block area is written; and a pass of the loop over an index that is at least
\* blocksPerSide * blocksPerSide leaves the plan as it was and goes on without error.
C6_ReservedState ==
    (cityPc \in {"initial", "fill", "build", "done"}) =>
        /\ \A b \in ReservedInRange : plan[b + 1] = "Reserved"
        /\ \A k \in 1..Len(stamps) : stamps[k].planIndex \notin ReservedInRange
        /\ \A i \in (DOMAIN dstFlor) \cup (DOMAIN dstMap1) \cup (DOMAIN dstMap2) :
              PlanCellOf(i) \notin ReservedInRange

C6_OutOfRangeIgnored ==
    (cityPc = "reserved" /\ reservedBlocks[ri] >= Len(plan)) =>
        /\ plan' = plan
        /\ cityPc' \in {"reserved", "initial"}
        /\ ri' = ri + 1

C6_Reserved == ([]C6_ReservedState) /\ [][C6_OutOfRangeIgnored]_vars

\* Both calls finished on a plan with Reserved cells, given a list with an index past
\* the plan, and the other cells were stamped.
C6_Witness ==
    /\ cityPc = "done"
    /\ \E i \in 1..Len(reservedBlocks) : reservedBlocks[i] >= Len(plan)
    /\ CountOf(plan, "Reserved") > 0
    /\ Len(stamps) = Len(plan) - CountOf(plan, "Reserved")
    /\ DOMAIN dstFlor # {}

(***************************************************************************)
(* Specifications.                                                         *)
(***************************************************************************)
DecodeInit ==
    /\ gridWidth \in 1..MaxGridWidth
    /\ gridDepth \in GridDepths
    /\ inf \in LevelConfigs
    /\ worldType = inf.worldType
    /\ \E bg \in Backgrounds(inf.worldType) :
       \E S \in {T \in SUBSET (0..((gridWidth * gridDepth) - 1)) : Cardinality(T) <= MaxSpecial} :
       \E sp \in [S -> 1..Len(Palette)] :
          /\ flor = LayersOf(gridWidth * gridDepth, bg, sp)[1]
          /\ map1 = LayersOf(gridWidth * gridDepth, bg, sp)[2]
          /\ map2 = LayersOf(gridWidth * gridDepth, bg, sp)[3]
    /\ voxels = NewVoxels(gridWidth, gridDepth)
    /\ voxelData = <<>>
    /\ floorDataMappings = <<>>
    /\ chasmDataMappings = <<>>
    /\ wallDataMappings = <<>>
    /\ map2DataMappings = <<>>
    /\ flatsLists = <<>>
    /\ written = {}
    /\ pc = "readFLOR"
    /\ cx = 0
    /\ cz = 0

\* No level is being decoded.
LevelIdle ==
    /\ gridWidth = 0 /\ gridDepth = 0
    /\ flor = <<>> /\ map1 = <<>> /\ map2 = <<>>
    /\ inf = Null /\ worldType = "City"
    /\ voxels = <<>> /\ voxelData = <<>>
    /\ floorDataMappings = <<>> /\ chasmDataMappings = <<>>
    /\ wallDataMappings = <<>> /\ map2DataMappings = <<>>
    /\ flatsLists = <<>> /\ written = {}
    /\ pc = "idle" /\ cx = 0 /\ cz = 0

\* Decoding one level: readFLOR, readMAP1, readMAP2.
DecodeNext == ReadFLORStep \/ ReadMAP1Step \/ ReadMAP2Step

InitDecode == DecodeInit /\ CityIdle /\ WildIdle /\ PalaceIdle /\ CityDefIdle /\ NamesIdle
    /\ AnimIdle /\ WorldIdle

SpecDecode == InitDecode /\ [][DecodeNext]_vars

\* generateCity, called twice with the same arguments.
CityNext ==
    MarkReservedStep \/ PlaceBlockStep \/ FillDrawStep \/ BuildStep \/ GenerateCityAgain

InitCity == CityInit /\ LevelIdle /\ WildIdle /\ PalaceIdle /\ CityDefIdle /\ NamesIdle
    /\ AnimIdle /\ WorldIdle

SpecCity == InitCity /\ [][CityNext]_vars

\* generateCity runs on: no step of it waits for anything.
InitCityFair == InitCity /\ (blockSize = <<2, 3>>) /\ (startPosition = <<0, 0>>)

SpecCityFair == InitCityFair /\ [][CityNext]_vars /\ WF_vars(CityNext)

\* generateWildernessIndices.
WildNext == GenerateStep \/ SetCityIndicesStep

\* revisePalaceGraphics on one grid.
PalaceNext == RevisePalaceGraphics

InitPalace == PalaceInit /\ CityIdle /\ WildIdle /\ CityDefIdle /\ NamesIdle
    /\ AnimIdle /\ WorldIdle

SpecPalace == InitPalace /\ [][PalaceNext]_vars

InitWild == WildInit /\ LevelIdle /\ CityIdle /\ PalaceIdle /\ CityDefIdle /\ NamesIdle
    /\ AnimIdle /\ WorldIdle

SpecWild == InitWild /\ [][WildNext]_vars

\* reviseWildernessCity, with generateCity for a city that is not premade.
ReviseNext ==
    \/ ClearPlaceholder
    \/ InitMif
    \/ MarkReservedStep
    \/ PlaceBlockStep
    \/ FillDrawStep
    \/ BuildStep
    \/ TransformCity
    \/ WriteCity

InitRevise == ReviseInit /\ WildIdle /\ PalaceIdle /\ NamesIdle
    /\ AnimIdle /\ WorldIdle

SpecRevise == InitRevise /\ [][ReviseNext]_vars

\* generateBuildingNames on a decoded city level.
NamesNext == TryGenerateBlockName

InitNames == NamesInit /\ WildIdle /\ PalaceIdle /\ CityDefIdle
    /\ AnimIdle /\ WorldIdle

SpecNames == InitNames /\ [][NamesNext]_vars

\* generateBuildingNames runs on: no step of it waits for anything.
SpecNamesFair == InitNames /\ [][NamesNext]_vars /\ WF_vars(NamesNext)

(***************************************************************************)
(* ExteriorLevelData::loadCity.  flor, map1 and map2 are level.flor,       *)
(* level.map1 and level.map2 at the call and the temp buffers from the     *)
(* palace pass on; while generateCity runs the temp buffers are dstFlor,   *)
(* dstMap1 and dstMap2.                                                    *)
(***************************************************************************)
\* The temp buffers are made, the generator is seeded, and generateCity is entered
\* for a city that is not premade.
LoadCityBegin ==
    /\ pc = "loadCity"
    /\ random' = citySeed
    /\ IF premade
       THEN /\ pc' = "revisePalace"
            /\ UNCHANGED <<dstFlor, dstMap1, dstMap2, plan, cityPc>>
       ELSE /\ pc' = "generateCity"
            /\ dstFlor' = flor
            /\ dstMap1' = map1
            /\ dstMap2' = map2
            /\ plan' = [i \in 1..(cityDim * cityDim) |-> "Empty"]
            /\ cityPc' = IF reservedBlocks = <<>> THEN "initial" ELSE "reserved"
    /\ UNCHANGED <<citySeed, cityDim, reservedBlocks, startPosition, cityGridDepth,
                   cityBlockMifs, blockSize, dstLength, ri, placing, fixedPlaced,
                   remainingBlocks, xDim, yDim, draws, fills, stamps, firstRun>>
    /\ UNCHANGED <<gridWidth, gridDepth, flor, map1, map2, inf, worldType, voxels, voxelData,
                   floorDataMappings, chasmDataMappings, wallDataMappings, map2DataMappings,
                   flatsLists, written, cx, cz>>
    /\ UNCHANGED <<wildVars, palaceVars, cityDefVars, namesVars>>
    /\ UNCHANGED <<animVars, worldVars>>

\* generateCity has returned: the temp buffers hold the blocks it wrote.
GenerateCityReturn ==
    /\ pc = "generateCity"
    /\ cityPc = "done"
    /\ flor' = dstFlor
    /\ map1' = dstMap1
    /\ map2' = dstMap2
    /\ pc' = "revisePalace"
    /\ UNCHANGED <<gridWidth, gridDepth, inf, worldType, voxels, voxelData,
                   floorDataMappings, chasmDataMappings, wallDataMappings, map2DataMappings,
                   flatsLists, written, cx, cz>>
    /\ UNCHANGED <<cityVars, wildVars, palaceVars, cityDefVars, namesVars>>
    /\ UNCHANGED <<animVars, worldVars>>

\* A variant that makes the level once the temp buffers exist, without the palace pass.
ConstructLevelDataUnrevised ==
    /\ pc = "revisePalace"
    /\ voxels' = NewVoxels(gridWidth, gridDepth)
    /\ pc' = "readFLOR"
    /\ cx' = 0
    /\ cz' = 0
    /\ UNCHANGED <<gridWidth, gridDepth, flor, map1, map2, inf, worldType, voxelData,
                   floorDataMappings, chasmDataMappings, wallDataMappings, map2DataMappings,
                   flatsLists, written>>
    /\ UNCHANGED <<cityVars, wildVars, palaceVars, cityDefVars, namesVars>>
    /\ UNCHANGED <<animVars, worldVars>>

\* "ExteriorLevelData levelData(gridWidth, level.getHeight(), gridDepth, ...)", made
\* when revisePalaceGraphics has returned; readFLOR is called next.
ConstructLevelData ==
    /\ pc = "revised"
    /\ voxels' = NewVoxels(gridWidth, gridDepth)
    /\ pc' = "readFLOR"
    /\ cx' = 0
    /\ cz' = 0
    /\ UNCHANGED <<gridWidth, gridDepth, flor, map1, map2, inf, worldType, voxelData,
                   floorDataMappings, chasmDataMappings, wallDataMappings, map2DataMappings,
                   flatsLists, written>>
    /\ UNCHANGED <<cityVars, wildVars, palaceVars, cityDefVars, namesVars>>
    /\ UNCHANGED <<animVars, worldVars>>

\* readMAP2 has returned: generateBuildingNames is called with loadCity's generator.
CallGenerateBuildingNames ==
    /\ pc = "done"
    /\ pc' = "generateNames"
    /\ cx' = gridWidth - 1
    /\ cz' = gridDepth - 1
    /\ menuNames' = <<>>
    /\ seen' = <<>>
    /\ menuType' = MenuTypes[1]
    /\ UNCHANGED <<gridWidth, gridDepth, flor, map1, map2, inf, worldType, voxels, voxelData,
                   floorDataMappings, chasmDataMappings, wallDataMappings, map2DataMappings,
                   flatsLists, written>>
    /\ UNCHANGED <<cityVars, wildVars, palaceVars, cityDefVars, mainQuestTempleOverride>>
    /\ UNCHANGED <<animVars, worldVars>>

(***************************************************************************)
(* Arguments of loadCity: premade levels of depth 3 whose MAP1 is *MENU    *)
(* walls with at most one palace marker on the perimeter, and the skeleton *)
(* of a generated city, the smallest square level that holds three blocks  *)
(* a side, with a palace marker, a gate and three *MENU walls.             *)
(***************************************************************************)
MaxLoadWidth == 8
LoadWidths == {3, MaxLoadWidth}
LoadDepth == 3
SkeletonWidth == (2 * blockStride) + 3
SkeletonSeed == <<4660, 22136>>                        \* 0x12345678

PremadeLevelMap1(w, d, P) ==
    [i \in 0..((w * d) - 1) |-> IF i \in P THEN 9 * 4096 + 5 ELSE 1542]

SkeletonMap1 ==
    [i \in 0..((SkeletonWidth * SkeletonWidth) - 1) |->
        IF i = Map1Index(SkeletonWidth, 30, 0) THEN 9 * 4096 + 5      \* 0x9005
        ELSE IF i = Map1Index(SkeletonWidth, 30, 4) THEN 10 * 4096 + 1 \* 0xA001
        ELSE IF i \in {Map1Index(SkeletonWidth, 10, 10), Map1Index(SkeletonWidth, 10, 11),
                       Map1Index(SkeletonWidth, 30, 30)} THEN 1542     \* 0x0606
        ELSE 0]

LoadCityInit ==
    /\ premade \in BOOLEAN
    /\ mif = NoMif
    /\ citySeed \in (IF premade THEN CitySeeds ELSE {SkeletonSeed})
    /\ inf \in {c \in LevelConfigs : c.worldType = "City"}
    /\ worldType = "City"
    /\ IF premade
       THEN /\ gridWidth \in LoadWidths
            /\ gridDepth = LoadDepth
            /\ \E P \in SubsetsUpTo(Perimeter(gridWidth, gridDepth), 1) :
                  map1 = PremadeLevelMap1(gridWidth, gridDepth, P)
            /\ flor = [i \in 0..((gridWidth * gridDepth) - 1) |-> 512]
            /\ map2 = [i \in 0..((gridWidth * gridDepth) - 1) |-> IF i = 0 THEN 133 ELSE 0]
            /\ cityDim = 0 /\ reservedBlocks = <<>>
            /\ startPosition = <<0, 0>> /\ cityGridDepth = 0 /\ cityBlockMifs = {}
            /\ blockSize = <<0, 0>> /\ dstLength = 0
            /\ placing = "None"
       ELSE /\ gridWidth = SkeletonWidth
            /\ gridDepth = SkeletonWidth
            /\ map1 = SkeletonMap1
            /\ flor = [i \in 0..((gridWidth * gridDepth) - 1) |-> 256]
            /\ map2 = [i \in 0..((gridWidth * gridDepth) - 1) |-> 0]
            /\ cityDim = 3
            /\ reservedBlocks = <<0, 4>>
            /\ startPosition = <<0, 0>>
            /\ cityGridDepth = gridDepth
            /\ dstLength = gridWidth * gridDepth
            /\ cityBlockMifs = AllCityBlockMifs
            /\ blockSize = <<2, 3>>
            /\ placing = InitialBlocks[1]
    /\ random = <<0, 0>> /\ plan = <<>>
    /\ dstFlor = <<>> /\ dstMap1 = <<>> /\ dstMap2 = <<>>
    /\ cityPc = "idle" /\ ri = 1 /\ fixedPlaced = 0
    /\ remainingBlocks = 0 /\ xDim = 0 /\ yDim = 0
    /\ draws = <<>> /\ fills = <<>> /\ stamps = <<>> /\ firstRun = <<>>
    /\ voxels = <<>> /\ voxelData = <<>>
    /\ floorDataMappings = <<>> /\ chasmDataMappings = <<>>
    /\ wallDataMappings = <<>> /\ map2DataMappings = <<>>
    /\ flatsLists = <<>> /\ written = {}
    /\ pc = "loadCity" /\ cx = 0 /\ cz = 0
    /\ menuNames = <<>> /\ seen = <<>> /\ menuType = "Tavern"
    /\ mainQuestTempleOverride = NoOverride

\* loadCity up to the return of generateBuildingNames.
LoadCityNext ==
    \/ LoadCityBegin
    \/ MarkReservedStep
    \/ PlaceBlockStep
    \/ FillDrawStep
    \/ BuildStep
    \/ GenerateCityReturn
    \/ RevisePalaceGraphics
    \/ ConstructLevelData
    \/ ReadFLORStep
    \/ ReadMAP1Step
    \/ ReadMAP2Step
    \/ CallGenerateBuildingNames
    \/ TryGenerateBlockName

InitLoadCity == LoadCityInit /\ WildIdle /\ PalaceIdle
    /\ AnimIdle /\ WorldIdle

SpecLoadCity == InitLoadCity /\ [][LoadCityNext]_vars

(***************************************************************************)
(* Properties of loadCity.                                                 *)
(***************************************************************************)
\* The steps of the four passes.
GenerationStep == (cityPc \notin {"idle", "done"}) /\ (cityVars' # cityVars)
ReviserStep == (pc = "revisePalace") /\ (pc' # "revisePalace")
DecodeStep == pc \in {"readFLOR", "readMAP1", "readMAP2"}
NamesCall == (pc # "generateNames") /\ (pc' = "generateNames")
NamesStep == pc = "generateNames"

\* generateCity is over (it is not called for a premade city).
GenerationOver == premade \/ (cityPc = "done")

\* The raw layers hold every block generateCity wrote.
BlocksOverlaid ==
    premade \/ (stamps # <<>> /\ flor = dstFlor /\ map1 = dstMap1 /\ map2 = dstMap2)

\* No voxel grid has been made and no voxel of it has been written.
NothingDecoded == (voxels = <<>>) /\ (voxelData = <<>>) /\ (written = {})

\* revisePalaceGraphics has returned: it found a palace block or logged that none exists.
ReviserRan == (result.side # "None") \/ (debugLog # <<>>)

\* readFLOR wrote every floor voxel and readMAP2, the last loop, every voxel it writes.
AllDecoded ==
    /\ voxels # <<>>
    /\ \A x \in 0..(gridWidth - 1) : \A z \in 0..(gridDepth - 1) :
          /\ <<x, 0, z>> \in written
          /\ (Map2At(x, z) # 0) => (<<x, 2, z>> \in written)

NoNames == (menuNames = <<>>) /\ (seen = <<>>)

\* C14, as stated: the blocks are generated first, then the layers are decoded, and
\* the palace pass and the name pass both run on the decoded grid.
C14_OriginalStep ==
    /\ GenerationStep => (NothingDecoded /\ NoNames)
    /\ DecodeStep => (GenerationOver /\ NoNames)
    /\ ReviserStep => AllDecoded
    /\ NamesCall => AllDecoded
    /\ NamesStep => (voxels' = voxels /\ written' = written)

C14_Original == [][C14_OriginalStep]_vars

\* C14: when a city is loaded the blocks are generated into the raw layers first, then
\* revisePalaceGraphics runs on the raw MAP1 layer before any voxel is decoded, then
\* FLOR, MAP1 and MAP2 are decoded from the revised buffers, and generateBuildingNames
\* is called only once every layer is decoded and leaves the grid as decoded.
C14_Step ==
    /\ GenerationStep => (NothingDecoded /\ ~ReviserRan /\ NoNames)
    /\ ReviserStep => (GenerationOver /\ BlocksOverlaid /\ NothingDecoded /\ NoNames)
    /\ DecodeStep => /\ GenerationOver /\ ReviserRan /\ NoNames
                     /\ flor' = flor /\ map1' = map1 /\ map2' = map2
    /\ NamesCall => (GenerationOver /\ ReviserRan /\ AllDecoded)
    /\ NamesStep => (voxels' = voxels /\ written' = written)

C14_LoadOrder == [][C14_Step]_vars

\* A load has finished in which the palace pass rewrote MAP1 and names were generated
\* from the grid decoded afterwards.
C14_Witness ==
    /\ pc = "named"
    /\ result.side # "None"
    /\ map1[Map1Index(gridDepth, PalaceCase(result.side, gridWidth, gridDepth,
                                            result.offset).first[1],
                      PalaceCase(result.side, gridWidth, gridDepth, result.offset).first[2])]
          # 9 * 4096 + 5
    /\ AllDecoded
    /\ menuNames # <<>>

(***************************************************************************)
(* Properties of the gate search of revisePalaceGraphics.                  *)
(***************************************************************************)
\* The cell i steps from the first palace voxel along the gate direction.
GateSearchCell(c, i) == <<c.first[1] + (c.gateDir[1] * i), c.first[2] + (c.gateDir[2] * i)>>

InGrid(p) == (p[1] \in 0..(gridWidth - 1)) /\ (p[2] \in 0..(gridDepth - 1))

\* The steps below 8 at which a cell of the grid holds a top-nibble-0xA voxel.
GateSteps(m, c) ==
    {i \in 0..7 : InGrid(GateSearchCell(c, i))
                  /\ MostSigNibble(PalaceVoxel(m, GateSearchCell(c, i)[1],
                                               GateSearchCell(c, i)[2])) = 10}

\* Every cell the search looks at, up to the first gate voxel or the eighth cell, is a
\* cell of the grid.
SearchInGrid(m, c) ==
    \A i \in 0..(IF GateSteps(m, c) = {} THEN 7 ELSE SetMin(GateSteps(m, c))) :
        InGrid(GateSearchCell(c, i))

\* The elements of the layer that a step changed.
ChangedMap1 == {i \in DOMAIN map1 : map1'[i] # map1[i]}

CellIndex(p) == Map1Index(gridDepth, p[1], p[2])

\* C21, as stated: the second palace voxel and the gate voxels are rewritten exactly
\* when a gate voxel is found within the bound.
C21_OriginalStep ==
    (pc = "revisePalace" /\ pc' # "revisePalace" /\ result'.side # "None") =>
        LET c == PalaceCase(result'.side, gridWidth, gridDepth, result'.offset)
            second == <<c.first[1] + c.step[1], c.first[2] + c.step[2]>>
            steps == GateSteps(map1, c)
            gate == GateSearchCell(c, SetMin(steps))
            gate2 == <<gate[1] + c.step[1], gate[2] + c.step[2]>>
        IN SearchInGrid(map1, c) =>
              /\ (steps # {}) =>
                    ChangedMap1 = {CellIndex(c.first), CellIndex(second),
                                   CellIndex(gate), CellIndex(gate2)}
              /\ (steps = {}) => ChangedMap1 \subseteq {CellIndex(c.first)}

C21_Step ==
    (pc = "revisePalace" /\ pc' # "revisePalace" /\ result'.side # "None") =>
        LET c == PalaceCase(result'.side, gridWidth, gridDepth, result'.offset)
            second == <<c.first[1] + c.step[1], c.first[2] + c.step[2]>>
            steps == GateSteps(map1, c)
            gate == GateSearchCell(c, SetMin(steps))
            gate2 == <<gate[1] + c.step[1], gate[2] + c.step[2]>>
            palace == [map1 EXCEPT ![CellIndex(c.first)] = c.firstID,
                                   ![CellIndex(second)] = c.secondID]
        IN SearchInGrid(map1, c) =>
              /\ pc' = "revised"
              /\ gateDist' = IF steps = {} THEN NO_GATE ELSE SetMin(steps)
              /\ (steps # {}) =>
                    /\ InGrid(gate2)
                    /\ map1' = [palace EXCEPT ![CellIndex(gate)] = c.gateID,
                                              ![CellIndex(gate2)] = c.gateID]
              /\ (steps = {}) => map1' = palace

MatchedMarker(res) ==
    CASE res.side = "North" -> <<0, res.offset>>
      [] res.side = "South" -> <<gridWidth - 1, res.offset>>
      [] res.side = "East" -> <<res.offset, 0>>
      [] res.side = "West" -> <<res.offset, gridDepth - 1>>

\* The perimeter cells of a layer that hold a top-nibble-0x9 voxel.
PerimeterMarkers(m) ==
    {c \in (0..(gridWidth - 1)) \X (0..(gridDepth - 1)) :
        /\ (c[1] \in {0, gridWidth - 1}) \/ (c[2] \in {0, gridDepth - 1})
        /\ MostSigNibble(PalaceVoxel(m, c[1], c[2])) = 9}

C27_Step ==
    (pc = "revisePalace" /\ pc' # "revisePalace" /\ result'.side # "None") =>
        LET c == PalaceCase(result'.side, gridWidth, gridDepth, result'.offset)
            second == <<c.first[1] + c.step[1], c.first[2] + c.step[2]>>
        IN /\ MatchedMarker(result') \in {c.first, second}
           /\ (Cardinality(PerimeterMarkers(map1)) = 1) => (PerimeterMarkers(map1') = {})

\* C27: when revisePalaceGraphics matches a palace marker on an edge, the matched voxel
\* is one of the two palace voxels that are rewritten, so a grid with exactly one
\* top-nibble-0x9 perimeter voxel has none after the revision.
C27_MarkerRewritten == [][C27_Step]_vars

C28_Step ==
    (pc = "revisePalace" /\ pc' # "revisePalace" /\ result'.side # "None") =>
        LET c == PalaceCase(result'.side, gridWidth, gridDepth, result'.offset)
            second == <<c.first[1] + c.step[1], c.first[2] + c.step[2]>>
            looked == IF gateDist' = NO_GATE THEN MAX_GATE_DIST - 1 ELSE gateDist'
            gate == GateSearchCell(c, gateDist')
        IN /\ InGrid(MatchedMarker(result'))
           /\ InGrid(c.first)
           /\ InGrid(second)
           /\ \A i \in 0..looked : InGrid(GateSearchCell(c, i))
           /\ (gateDist' # NO_GATE) =>
                 (InGrid(gate) /\ InGrid(<<gate[1] + c.step[1], gate[2] + c.step[2]>>))

\* C28: every MAP1 read and write of revisePalaceGraphics (the edge search, each step of
\* the gate search, the two palace writes and the two gate writes) uses coordinates
\* inside [0, gridWidth) x [0, gridDepth).
C28_InsideGrid == [][C28_Step]_vars

(***************************************************************************)
(* Properties of the scan of generateBuildingNames.                        *)
(***************************************************************************)
\* The place of an entry in the order tavern, equipment, temple and, within a category,
\* x descending and for each x z descending.
CategoryRank(type) == IF type = "Tavern" THEN 0 ELSE IF type = "Equipment" THEN 1 ELSE 2
VisitRank(e) ==
    (CategoryRank(e.name[1]) * gridWidth * gridDepth)
        + ((gridWidth - 1 - e.position[1]) * gridDepth) + (gridDepth - 1 - e.position[2])

C22_Step ==
    (pc = "generateNames") =>
        LET matches == MatchesTargetType(cx, cz, menuType)
            drawn == ArenaRandomNext(ArenaRandomNext(random))
            \* the do-while loop draws again for the voxel it is at
            redraw == (cx' = cx) /\ (cz' = cz)
            passEnd == (cx = 0) /\ (cz = 0)
        IN \/ /\ redraw
              /\ matches
              \* one more pair of draws, or draws without end
              /\ (random' = drawn /\ pc' = pc) \/ (random' = random /\ pc' = "spinning")
              /\ menuNames' = menuNames
              /\ menuType' = menuType
           \/ /\ ~redraw
              \* one entry per matching marker, in visit order
              /\ Len(menuNames') = Len(menuNames) + (IF matches THEN 1 ELSE 0)
              /\ \A i \in 1..Len(menuNames) : menuNames'[i].position = menuNames[i].position
              /\ \A i \in 1..Len(menuNames) :
                    \/ menuNames'[i] = menuNames[i]
                    \/ /\ passEnd /\ menuType = "Temple" /\ mainQuestTempleOverride.has
                       /\ i = mainQuestTempleOverride.menuNamesIndex + 1
              /\ matches => /\ menuNames'[Len(menuNames')].position = <<cx, cz>>
                            /\ menuNames'[Len(menuNames')].name[1] = "Temple"
                                  \/ menuNames'[Len(menuNames')].name[1] = menuType
              /\ \A i, j \in 1..Len(menuNames) :
                    (i < j) => (VisitRank(menuNames[i]) < VisitRank(menuNames[j]))
              /\ \A i \in 1..Len(menuNames) :
                    VisitRank(menuNames[i])
                       < VisitRank([position |-> <<cx, cz>>, name |-> <<menuType>>])
              \* the traversal
              /\ (cz > 0) => (cx' = cx /\ cz' = cz - 1)
              /\ (cz = 0 /\ cx > 0) => (cx' = cx - 1 /\ cz' = gridDepth - 1)
              \* the categories and the generator
              /\ ~passEnd =>
                    /\ menuType' = menuType
                    /\ pc' = "generateNames"
                    /\ random' = IF matches THEN drawn ELSE random
              /\ (passEnd /\ menuType = "Tavern") =>
                    /\ menuType' = "Equipment" /\ pc' = "generateNames"
                    /\ random' = LocalCitySeed(citySeed)
              /\ (passEnd /\ menuType = "Equipment") =>
                    /\ menuType' = "Temple" /\ pc' = "generateNames"
                    /\ random' = LocalCitySeed(citySeed)
              /\ (passEnd /\ menuType = "Temple") => (pc' \in {"named", "crash"})
              /\ (passEnd /\ pc' = "generateNames") => (cx' = gridWidth - 1 /\ cz' = gridDepth - 1)

\* C22: generateBuildingNames handles the categories in the order tavern, equipment,
\* temple; each pass visits the main-floor voxels with x descending from gridWidth-1 and
\* for each x z descending from gridDepth-1, and appends one (position, name) entry per
\* matching marker in visit order; the generator is seeded with (localCityX << 16) +
\* localCityY before the equipment pass and again before the temple pass, and the
\* tavern pass goes on with the sequence it is handed.
C22_ScanOrder == [][C22_Step]_vars

\* Every pass is over, each category has an entry, and the first tavern was named with
\* the two draws that follow the generator state handed in, one draw after the city seed.
C22_Witness ==
    /\ pc = "named"
    /\ \A type \in {"Tavern", "Equipment", "Temple"} : EntriesOf(type) # <<>>
    /\ LET r1 == RandomAfter(citySeed, 2)
           r2 == ArenaRandomNext(r1)
           s1 == ArenaRandomNext(LocalCitySeed(citySeed))
           s2 == ArenaRandomNext(s1)
       IN /\ EntriesOf("Tavern")[1].name =
                CreateName("Tavern", ArenaRandomValue(r1) % 23, ArenaRandomValue(r2) % 23, 0, 0)
          /\ EntriesOf("Tavern")[1].name #
                CreateName("Tavern", ArenaRandomValue(s1) % 23, ArenaRandomValue(s2) % 23, 0, 0)
          /\ NameHash(EntriesOf("Equipment")[1].name)
                = ((ArenaRandomValue(s1) % 20) * 256) + (ArenaRandomValue(s2) % 10)

(***************************************************************************)
(* LevelData::DoorState and LevelData::FadeState.  percentOpen is kept in  *)
(* units of 1/PercentScale and times in ticks; DoorStep is DEFAULT_SPEED   *)
(* times one tick in those units.  The arithmetic is exact: the rounding   *)
(* of doubles is not modelled.                                             *)
(***************************************************************************)
PercentScale == 10
DoorStep == 3
MaxDt == 2
MaxTargetSeconds == 4

\* A variant of DoorState::update without std::min and std::max.
DoorStateUpdateUnclamped(dt) ==
    /\ worldPc = "idle"
    /\ LET delta == DoorStep * dt
       IN IF direction = "Opening"
          THEN /\ percentOpen' = percentOpen + delta
               /\ direction' = IF percentOpen' = PercentScale THEN "None" ELSE direction
          ELSE IF direction = "Closing"
          THEN /\ percentOpen' = percentOpen - delta
               /\ direction' = IF percentOpen' = 0 THEN "None" ELSE direction
          ELSE UNCHANGED <<percentOpen, direction>>
    /\ UNCHANGED <<currentSeconds, targetSeconds>>
    /\ UNCHANGED <<levelVars, cityVars, wildVars, palaceVars, cityDefVars, namesVars, worldVars>>

\* DoorState::isClosed.
IsClosed(p) == p = 0

\* DoorState::update(dt).
DoorStateUpdate(dt) ==
    /\ worldPc = "idle"
    /\ LET delta == DoorStep * dt
       IN IF direction = "Opening"
          THEN /\ percentOpen' = Min(percentOpen + delta, PercentScale)
               /\ direction' = IF percentOpen' = PercentScale THEN "None" ELSE direction
          ELSE IF direction = "Closing"
          THEN /\ percentOpen' = Max(percentOpen - delta, 0)
               /\ direction' = IF IsClosed(percentOpen') THEN "None" ELSE direction
          ELSE UNCHANGED <<percentOpen, direction>>
    /\ UNCHANGED <<currentSeconds, targetSeconds>>
    /\ UNCHANGED <<levelVars, cityVars, wildVars, palaceVars, cityDefVars, namesVars, worldVars>>

\* FadeState::getPercentDone, in units of 1/PercentScale, and FadeState::isDoneFading.
GetPercentDone ==
    Min(Max((currentSeconds * PercentScale) \div targetSeconds, 0), PercentScale)
IsDoneFading == GetPercentDone = PercentScale

\* FadeState::update(dt).
FadeStateUpdate(dt) ==
    /\ worldPc = "idle"
    /\ targetSeconds > 0
    /\ currentSeconds' = Min(currentSeconds + dt, targetSeconds)
    /\ UNCHANGED <<percentOpen, direction, targetSeconds>>
    /\ UNCHANGED <<levelVars, cityVars, wildVars, palaceVars, cityDefVars, namesVars, worldVars>>

\* A door made by either constructor and a fade made for a positive duration.
AnimInit ==
    /\ percentOpen \in 0..PercentScale
    /\ direction \in {"Opening", "Closing", "None"}
    /\ currentSeconds = 0
    /\ targetSeconds \in 1..MaxTargetSeconds

\* update(dt) calls with dt >= 0 on the door and on the fade.
DoorUpdates == \E dt \in 0..MaxDt : DoorStateUpdate(dt)
FadeUpdates == \E dt \in 0..MaxDt : FadeStateUpdate(dt)
DoorTicks == \E dt \in 1..MaxDt : DoorStateUpdate(dt)
FadeTicks == \E dt \in 1..MaxDt : FadeStateUpdate(dt)

AnimNext == DoorUpdates \/ FadeUpdates

InitAnimation ==
    AnimInit /\ LevelIdle /\ CityIdle /\ WildIdle /\ PalaceIdle /\ CityDefIdle /\ NamesIdle
        /\ WorldIdle

\* The door and the fade are updated again and again with dt > 0.
SpecAnimation == InitAnimation /\ [][AnimNext]_vars /\ WF_vars(DoorTicks) /\ WF_vars(FadeTicks)

(***************************************************************************)
(* Properties of DoorState and FadeState.                                  *)
(***************************************************************************)
C23_Bounds == (percentOpen \in 0..PercentScale) /\ (currentSeconds <= targetSeconds)

C23_Step ==
    /\ (direction = "None") => (percentOpen' = percentOpen /\ direction' = "None")
    /\ IsDoneFading => IsDoneFading'

MaxInteriors == 3
MaxReturnCoord == 2
InteriorIds == 1..MaxInteriors
ReturnVoxels == (0..MaxReturnCoord) \X (0..MaxReturnCoord)

\* ExteriorWorldData::getInterior: 0 stands for nullptr.
GetInterior == IF interior.held THEN interior.worldData ELSE 0

\* ExteriorWorldData::getBaseWorldType and getActiveWorldType.
GetBaseWorldType == IF isCity THEN "City" ELSE "Wilderness"
GetActiveWorldType == IF interior.held THEN "Interior" ELSE GetBaseWorldType

\* A variant of enterInterior without the DebugAssert.
EnterInteriorUnchecked(w, v) ==
    /\ worldPc = "ready"
    /\ interior' = [held |-> TRUE, worldData |-> w, returnVoxel |-> v]
    /\ UNCHANGED <<isCity, returnVoxel, worldPc>>
    /\ UNCHANGED <<levelVars, cityVars, wildVars, palaceVars, cityDefVars, namesVars, animVars>>

\* ExteriorWorldData::enterInterior(interior, returnVoxel).
EnterInterior(w, v) ==
    /\ worldPc = "ready"
    /\ IF interior = NoInterior
       THEN /\ interior' = [held |-> TRUE, worldData |-> w, returnVoxel |-> v]
            /\ UNCHANGED worldPc
       ELSE /\ worldPc' = "crash"
            /\ UNCHANGED interior
    /\ UNCHANGED <<isCity, returnVoxel>>
    /\ UNCHANGED <<levelVars, cityVars, wildVars, palaceVars, cityDefVars, namesVars, animVars>>

\* ExteriorWorldData::leaveInterior().
LeaveInterior ==
    /\ worldPc = "ready"
    /\ IF interior # NoInterior
       THEN /\ returnVoxel' = interior.returnVoxel
            /\ interior' = NoInterior
            /\ UNCHANGED worldPc
       ELSE /\ worldPc' = "crash"
            /\ UNCHANGED <<interior, returnVoxel>>
    /\ UNCHANGED isCity
    /\ UNCHANGED <<levelVars, cityVars, wildVars, palaceVars, cityDefVars, namesVars, animVars>>

\* ExteriorWorldData::ExteriorWorldData(levelData, isCity): no interior yet.
WorldInit ==
    /\ isCity \in BOOLEAN
    /\ interior = NoInterior
    /\ returnVoxel = <<0, 0>>
    /\ worldPc = "ready"

EnterCalls == \E w \in InteriorIds, v \in ReturnVoxels : EnterInterior(w, v)

WorldNext == EnterCalls \/ LeaveInterior

InitWorld ==
    WorldInit /\ LevelIdle /\ CityIdle /\ WildIdle /\ PalaceIdle /\ CityDefIdle /\ NamesIdle
        /\ AnimIdle

SpecWorld == InitWorld /\ [][WorldNext]_vars

(***************************************************************************)
(* Properties of ExteriorWorldData's interior.                             *)
(***************************************************************************)
C30_Types ==
    /\ interior = NoInterior
         \/ (interior.held /\ interior.worldData \in InteriorIds
               /\ interior.returnVoxel \in ReturnVoxels)
    /\ (GetActiveWorldType = "Interior") <=> (GetInterior # 0)
    /\ (GetInterior = 0) => (GetActiveWorldType = GetBaseWorldType)
    /\ GetBaseWorldType \in {"City", "Wilderness"}

C30_Step ==
    /\ GetBaseWorldType' = GetBaseWorldType
    \* An interior is only taken up when none is held, by a call that is not refused.
    /\ (interior'.held /\ interior' # interior) => (interior = NoInterior /\ worldPc' = "ready")
    \* The interior held stays as enterInterior made it until leaveInterior gives it up,
    \* and leaveInterior returns its return voxel.
    /\ (interior.held /\ interior' # interior) =>
           (interior' = NoInterior /\ returnVoxel' = interior.returnVoxel)
    /\ (returnVoxel' # returnVoxel) => (interior.held /\ interior' = NoInterior)
    \* A call in the wrong state is refused and changes nothing.
    /\ (worldPc' = "crash") => (interior' = interior /\ returnVoxel' = returnVoxel)

\* C30: an ExteriorWorldData holds at most one interior; enterInterior is only accepted
\* while none is held and leaveInterior only while one is held; leaveInterior returns
\* the return voxel given to the enterInterior that made the interior and clears it;
\* getActiveWorldType is Interior exactly while an interior is held and the base type
\* (City or Wilderness) otherwise, and the base type never changes.
C30_Interior == []C30_Types /\ [][C30_Step]_vars

\* An interior entered from the far corner was left again and another one is held.
C30_Witness ==
    /\ worldPc = "ready"
    /\ returnVoxel = <<MaxReturnCoord, MaxReturnCoord>>
    /\ interior.held
    /\ interior.returnVoxel = <<0, MaxReturnCoord>>
    /\ GetActiveWorldType = "Interior"

(***************************************************************************)
(* Properties of readMAP2's column heights.                                *)
(***************************************************************************)
\* The number of stories of a MAP2 voxel by its bits 0x0080 and 0x8000.
StoriesByBits(map2Voxel) ==
    LET low == (map2Voxel \div 128) % 2 = 1
        high == (map2Voxel \div 32768) % 2 = 1
    IN IF low /\ high THEN 4 ELSE IF high THEN 3 ELSE IF low THEN 2 ELSE 1

C29_Step ==
    (pc = "readMAP2") =>
        LET map2Voxel == GetLayerVoxel(map2, gridWidth, gridDepth, cx, cz)
            column == {<<cx, y, cz>> : y \in 2..(StoriesByBits(map2Voxel) + 1)}
        IN IF map2Voxel # 0
           THEN /\ written' = written \cup column
                /\ \A c \in column : (c \in DOMAIN voxels) /\ (voxels'[c] = voxels'[<<cx, 2, cz>>])
                /\ voxelData'[voxels'[<<cx, 2, cz>>] + 1] =
                       MakeWall((map2Voxel % 128) - 1, (map2Voxel % 128) - 1,
                                (map2Voxel % 128) - 1, -1, "Solid")
           ELSE written' = written /\ voxels' = voxels

\* C29: readMAP2 writes the definition of a nonzero MAP2 code into the cells
\* y = 2 .. height+1 of its column, where height is 1 with neither bit 0x0080 nor bit
\* 0x8000 set, 2 with only 0x0080, 3 with only 0x8000 and 4 with both; a zero code
\* writes nothing.
C29_ColumnHeights == [][C29_Step]_vars

(***************************************************************************)
(* Properties of generateCity's block stamping.                            *)
(***************************************************************************)
\* The first destination index of template row z of plan cell i.
RowStart(i, z) ==
    (startPosition[1] + (blockStride * (i % cityDim)))
        + ((z + startPosition[2] + (blockStride * (i \div cityDim))) * cityGridDepth)

\* The destination indices plan cell i is stamped on.
Footprint(i) ==
    {RowStart(i, z) + k : z \in 0..(blockSize[2] - 1), k \in 0..(blockSize[1] - 1)}

\* The destination elements a step changed.
ChangedCells(old, new) ==
    {j \in DOMAIN new : (j \notin DOMAIN old) \/ (old[j] # new[j])}

C24_Footprints ==
    /\ \A s \in 1..Len(stamps), t \in 1..Len(stamps) :
           (s < t) => /\ stamps[s].planIndex < stamps[t].planIndex
                      /\ Footprint(stamps[s].planIndex) \cap Footprint(stamps[t].planIndex) = {}
    /\ \A s \in 1..Len(stamps) : plan[stamps[s].planIndex + 1] # "Reserved"
    /\ DOMAIN dstFlor = UNION {Footprint(stamps[s].planIndex) : s \in 1..Len(stamps)}
    /\ DOMAIN dstMap1 = DOMAIN dstFlor
    /\ DOMAIN dstMap2 = DOMAIN dstFlor

C24_Step ==
    (cityPc = "build" /\ cityPc' \in {"build", "done"}) =>
        LET i == xDim + (yDim * cityDim)
            layers == << <<dstFlor, dstFlor'>>, <<dstMap1, dstMap1'>>, <<dstMap2, dstMap2'>> >>
        IN IF plan[i + 1] = "Reserved"
           THEN \A l \in 1..3 : layers[l][2] = layers[l][1]
           ELSE /\ stamps' = Append(stamps, stamps'[Len(stamps')])
                /\ stamps'[Len(stamps')].planIndex = i
                /\ \A l \in 1..3 :
                     /\ DOMAIN layers[l][1] \subseteq DOMAIN layers[l][2]
                     /\ ChangedCells(layers[l][1], layers[l][2]) \subseteq Footprint(i)
                     /\ \A z \in 0..(blockSize[2] - 1), k \in 0..(blockSize[1] - 1) :
                            layers[l][2][RowStart(i, z) + k] =
                                BlockVoxel(stamps'[Len(stamps')].name, l, (z * blockSize[1]) + k)

\* C24: generateCity stamps plan cell i (column i mod cityDim, row i div cityDim) by
\* copying template row z to the destination indices from
\* (startX + 20*column) + (z + startY + 20*row) * rowLength on, in the same way for FLOR,
\* MAP1 and MAP2; with templates of at most 20x20 cells the footprints of different plan
\* cells do not overlap, and every destination cell outside the footprints of the cells
\* that are not Reserved keeps its value.
C24_Stamping == []C24_Footprints /\ [][C24_Step]_vars

\* A city with a reserved cell was stamped with blocks of the full 20x20 size.
C24_Witness ==
    /\ cityPc = "done"
    /\ blockSize = <<blockStride, blockStride>>
    /\ \E i \in 1..Len(plan) : plan[i] = "Reserved"
    /\ Len(stamps) >= 2
    /\ startPosition # <<0, 0>>

(***************************************************************************)
(* Termination of generateCity.                                            *)
(***************************************************************************)
\* The plan cells the reserved list leaves Empty.
FreeCells ==
    (cityDim * cityDim)
        - Cardinality({reservedBlocks[j] : j \in 1..Len(reservedBlocks)}
                          \cap (0..((cityDim * cityDim) - 1)))

\* placeBlock's do-while loop is running.
PlaceBlockRunning == (cityPc \in {"initial", "fill"}) /\ (placing # "None")

\* generateCity has returned or ended the program.
CityFinished == cityPc \in {"done", "crash", "undefined"}

\* C25 as stated, for every cityDim >= 1 and every reserved list: a placement loop that
\* is running has an Empty plan cell to find.
C25_Original == PlaceBlockRunning => (CountEmpty(plan) > 0)

C25_EmptyCellLeft == (FreeCells >= Len(InitialBlocks)) => C25_Original

\* C25: when the reserved list leaves at least six plan cells Empty, every placement loop
\* of generateCity (six fixed placements, then one per cell counted as Empty) has an
\* Empty cell to find and finds it, and generateCity comes to an end.
C25_Termination ==
    /\ []C25_EmptyCellLeft
    /\ (FreeCells >= Len(InitialBlocks)) => <>CityFinished

\* A city with exactly six free cells was built after a placement had to retry.
C25_Witness ==
    /\ cityPc = "done"
    /\ FreeCells = Len(InitialBlocks)
    /\ Len(draws) > Len(InitialBlocks) + (2 * Len(fills)) + (2 * Len(stamps))

(***************************************************************************)
(* Termination of generateBuildingNames.                                   *)
(***************************************************************************)
\* The main-floor voxels that are *MENU markers of a type.
MarkersOf(type) ==
    {p \in (0..(gridWidth - 1)) \X (0..(gridDepth - 1)) : MatchesTargetType(p[1], p[2], type)}

\* The number of hashes of a type.
HashCount(type) ==
    IF type = "Tavern" THEN 23 * 23 ELSE IF type = "Equipment" THEN 20 * 10 ELSE 5 + 9 + 10

\* No type has more markers than hashes.
MarkersFit == \A i \in 1..Len(MenuTypes) :
    Cardinality(MarkersOf(MenuTypes[i])) <= HashCount(MenuTypes[i])

\* generateBuildingNames has returned or ended the program.
NamesFinished == pc \in {"named", "crash"}

\* C26 as stated, for any number of markers: the loop of a marker that is being named
\* has an unused hash to find.
C26_Original ==
    /\ pc # "spinning"
    /\ (pc = "generateNames" /\ MatchesTargetType(cx, cz, menuType)) =>
           ~(HashSpace(menuType) \subseteq {seen[i] : i \in 1..Len(seen)})

C26_UnusedHashLeft == MarkersFit => C26_Original

\* C26: for a level with at most 23*23 tavern markers, 20*10 equipment markers and
\* 5+9+10 temple markers the redraw loop of each marker has an unused hash to find and
\* finds it, and generateBuildingNames comes to an end.
C26_Termination ==
    /\ []C26_UnusedHashLeft
    /\ MarkersFit => <>NamesFinished

\* A level with as many temples as temple hashes has all of them named.
C26_Witness ==
    /\ pc = "named"
    /\ Cardinality(MarkersOf("Temple")) = HashCount("Temple")
    /\ Len(menuNames) = HashCount("Temple")

====
